---- MODULE Spec2Model ----
(***************************************************************************)
(* Reconciliation core of the pharmacy report pipeline                     *)
(* (Scripts/improved_data_pipeline.py against the daily_summary table of   *)
(* Scripts/render_database_connection.py).                                 *)
(*                                                                         *)
(* Amounts are small naturals: every extractor matches unsigned digit      *)
(* groups only, so a candidate value is a number >= 0 or Python's None.    *)
(***************************************************************************)
EXTENDS Integers, FiniteSets, Sequences, TLC

\* Largest amount a document carries in the model.
MaxVal == 2

\* Python None / SQL NULL (no amount is negative, so -1 is free to stand for it).
None == -1

Amounts == 0..MaxVal
Values == Amounts \cup {None}

Pharmacies == {"REITZ", "TLC WINTERTON"}
Dates == {"2025-08-05"}
\* The date of a document whose report date could not be resolved; `not date` is true of it.
NoDate == ""
\* The keys combined_data can hold: a branch and a day, or a document whose branch
\* and date were not found.
GroupKeys == (Pharmacies \X Dates) \cup {<<"UNKNOWN", NoDate>>}
\* The batches of one branch.
BranchKeys == {<<"REITZ", "2025-08-05">>, <<"UNKNOWN", NoDate>>}

\* The fields compare_with_database_and_update passes through compare_and_keep_largest.
KeepLargestFields ==
    {"turnover", "gp_value", "cost_of_sales", "purchases", "disp_turnover",
     "transactions_total", "script_total", "stock_opening", "stock_closing",
     "sales_cash", "sales_account", "sales_cod", "type_r_sales"}

\* The fields it copies from the side whose turnover is the final turnover.
BundleFields ==
    {"gp_percent", "avg_basket_value", "avg_basket_size", "avg_script_value", "adjustments"}

MetricFields == KeepLargestFields \cup BundleFields

\* dict.get(key, default)
Get(d, f, default) == IF f \in DOMAIN d THEN d[f] ELSE default

\* The empty dict {}.
EmptyDict == [f \in {} |-> None]

VARIABLES
    processed_emails,   \* ids of the emails PharmacyEmailMonitor has processed
    report_timestamps,  \* report date -> stored last_email_timestamp, None when there is none
    cycle,      \* the call of process_single_email_cycle in progress, or the last one
    pdf_file,   \* the PDF whose date process_emails_and_classify resolves: text and name
    date_str,   \* the date resolved for it, "" before the resolution
    store,      \* daily_summary: (pharmacy, report_date) -> row, for the rows that exist
    pc,         \* "idle"; "reconcile" inside the loop of compare_with_database_and_update;
                \* "done" when the loop ended; "failed" when an exception left it
    pending,    \* keys of combined_data the loop has not reached yet
    last,       \* what the most recent loop iteration did (the logged decisions)
    observed,   \* history: per stored key and field, the largest candidate reconciled so far
    is_running, \* app_improved.is_running: the scheduler thread has been started
    run_pc,     \* per trigger, where its call of run_improved_pipeline stands
    run_local,  \* per trigger, the locals of its pass: calculated and existing_data
    files,      \* keep_latest_versions: the PDFs of base_dir in the order rglob yields them
    latest_map, \* keep_latest_versions: (date, pharmacy, report_type) -> latest file so far
    to_remove,  \* keep_latest_versions: the files reported as "Remove"
    scan_pos,   \* keep_latest_versions: which iteration of its two loops comes next
    data_list,  \* extract_and_process_all_data: the loaded items of one (pharmacy, date),
                \* in the order the aggregation loops reach them
    combined_data, \* extract_and_process_all_data: combined_data[key], slot by slot
    agg_pos,    \* extract_and_process_all_data: index of the next item; 0 when no
                \* aggregation is under way or a comparison raised
    text,       \* classify_pdf: the keyword phrases the text of the PDF contains
    scores,     \* classify_pdf: report_type -> number of its keywords found in text
    best_match, \* classify_pdf: the value returned ("" before the call returns)
    merged_data,        \* calculate_derived_metrics: the combined_data entry it is given
    calculated_metrics, \* calculate_derived_metrics: the entry's calculated_metrics
    extractor,    \* which extract_*_summary_data is called ("" when none is)
    report_lines, \* extract_*_summary_data: the lines of the text read from the PDF
    extracted,    \* extract_*_summary_data: the dict returned, or that it raised
    sched_threads, \* start_scheduler: per thread it started, where run_scheduler stands
    jobs,         \* the jobs registered with schedule (named by the start that added them)
    due,          \* the registered jobs whose next_run has come
    launched      \* per job, how often it was launched since it last became due

vars == <<processed_emails, report_timestamps, cycle, pdf_file, date_str,
          store, pc, pending, last, observed, is_running, run_pc, run_local,
          files, latest_map, to_remove, scan_pos, data_list, combined_data, agg_pos,
          text, scores, best_match, merged_data, calculated_metrics,
          extractor, report_lines, extracted, sched_threads, jobs, due, launched>>

\* The variables of the date resolution of one PDF.
dateVars == <<pdf_file, date_str>>

NoPdf == [text |-> << >>, name |-> ""]

\* No PDF whose date is being resolved.
DateIdle ==
    /\ pdf_file = NoPdf
    /\ date_str = ""

\* The variables of the email monitor.
monitorVars == <<processed_emails, report_timestamps, cycle>>

NoCycle ==
    [pc |-> "idle", recent_emails |-> << >>, position |-> 1,
     reports_by_date |-> << >>, all_pdf_files |-> {}, result |-> "none"]

\* No email monitor constructed.
MonitorIdle ==
    /\ processed_emails = {}
    /\ report_timestamps = << >>
    /\ cycle = NoCycle

\* The variables of the scheduler threads and of the schedule module's job list.
schedulerVars == <<sched_threads, jobs, due, launched>>

\* No scheduler thread started, no job registered.
SchedulerIdle ==
    /\ sched_threads = [i \in {} |-> [pc |-> "", job |-> 0]]
    /\ jobs = {}
    /\ due = {}
    /\ launched = [j \in {} |-> 0]

\* The variables of a call of one category extractor.
extractVars == <<extractor, report_lines, extracted>>

\* What extracted holds before the extractor returns.
NotExtracted == [raised |-> FALSE, fields |-> EmptyDict]

\* No extractor called.
ExtractIdle ==
    /\ extractor = ""
    /\ report_lines = << >>
    /\ extracted = NotExtracted

\* The variables of a call of calculate_derived_metrics on one entry.
metricsVars == <<merged_data, calculated_metrics>>

\* No entry being calculated.
MetricsIdle ==
    /\ merged_data = EmptyDict
    /\ calculated_metrics = EmptyDict

\* The variables of classify_pdf (improved_classify_and_organize.py).
classifyVars == <<text, scores, best_match>>

\* No PDF being classified.
ClassifyIdle ==
    /\ text = {}
    /\ scores = [report_type \in {} |-> 0]
    /\ best_match = ""

\* The variables of the aggregation in extract_and_process_all_data.
aggregateVars == <<data_list, combined_data, agg_pos>>

\* No aggregation under way.
AggregateIdle ==
    /\ data_list = << >>
    /\ combined_data = [slot \in {} |-> EmptyDict]
    /\ agg_pos = 0

\* The variables of keep_latest_versions (test_deduplication.py).
dedupVars == <<files, latest_map, to_remove, scan_pos>>

\* keep_latest_versions not called.
DedupIdle ==
    /\ files = << >>
    /\ latest_map = [k \in {} |-> << >>]
    /\ to_remove = {}
    /\ scan_pos = 0

\* The variables of the web service (app_improved.py).
serviceVars == <<is_running, run_pc, run_local>>

\* The threads that call run_improved_pipeline: the scheduler thread of
\* start_scheduler and the request thread of POST /check-now.
Triggers == {"scheduler", "check_now"}

NoLocals == [calculated |-> EmptyDict, existing_data |-> EmptyDict]

\* The web service before start_scheduler, no request in flight.
ServiceIdle ==
    /\ is_running = FALSE
    /\ run_pc = [t \in Triggers |-> "idle"]
    /\ run_local = [t \in Triggers |-> NoLocals]

\* What the steps of the reconciliation loop leave alone.
outsideReconcile ==
    <<serviceVars, dedupVars, aggregateVars, classifyVars, metricsVars, extractVars,
      dateVars, monitorVars, schedulerVars>>

----------------------------------------------------------------------------
(* calculate_basket_size / calculate_basket_value. Amounts and quantities   *)
(* are counted in hundredths, so round(.., 2) rounds to a whole number.     *)

\* Variant that truncates the quotient instead of rounding it.
truncate2(num, den) == {num \div den}

\* round(num / den, 2) for num >= 0 and den > 0: the values the call can return.
\* The float quotient is rounded to the nearest hundredth; when the exact quotient
\* lies midway between two hundredths, the binary value of the float decides and
\* can fall on either side (round(0.005, 2) is 0.01, round(0.015, 2) is 0.01).
round2(num, den) ==
    LET q == num \div den
        r == num % den
    IN  IF 2 * r < den THEN {q}
        ELSE IF 2 * r > den THEN {q + 1}
        ELSE {q, q + 1}

\* The values calculate_basket_size can return.
calculate_basket_size(transactions_total, total_products_sold) ==
    IF transactions_total > 0
    THEN round2(total_products_sold, transactions_total)
    ELSE {0}

\* The values calculate_basket_value can return.
calculate_basket_value(turnover, transactions_total) ==
    IF transactions_total > 0 /\ turnover > 0
    THEN round2(turnover, transactions_total)
    ELSE {0}

\* One combined_data entry after extract_and_process_all_data: the five category slots.
\* t is the turnover of the day, x the amount every other extracted field carries,
\* and each unit of turnover is one transaction selling one product.
MergedRecord(t, x) ==
    [trading_summary |->
        [stock_opening |-> x, stock_closing |-> x, purchases |-> x, adjustments |-> x,
         cost_of_sales |-> x, gp_value |-> x, gp_percent |-> x, turnover |-> t],
     turnover_summary |->
        [turnover |-> t, sales_cash |-> x, sales_account |-> x, sales_cod |-> x],
     transaction_summary |-> [transactions_total |-> t],
     gross_profit_summary |-> [summary_stats |-> [total_sales_qty |-> t]],
     dispensary_summary |->
        [script_total |-> x, disp_turnover_excluding_vat |-> x, avg_script_value |-> x]]

\* calculate_derived_metrics for one entry: the calculated_metrics dicts it can
\* produce (one, unless a quotient lies midway between two hundredths).
calculate_derived_metrics(data) ==
    LET trading == data.trading_summary
        turnover == data.turnover_summary
        transaction == data.transaction_summary
        gross_profit == data.gross_profit_summary
        dispensary == data.dispensary_summary
        transactions_total == Get(transaction, "transactions_total", 0)
        total_products_sold ==
            Get(Get(gross_profit, "summary_stats", EmptyDict), "total_sales_qty", 0)
        turnover_value == Get(turnover, "turnover", 0)
    IN  {[avg_basket_size |-> basket_size,
         turnover |-> turnover_value,
         avg_basket_value |-> basket_value,
         transactions_total |-> transactions_total,
         script_total |-> Get(dispensary, "script_total", 0),
         disp_turnover |-> Get(dispensary, "disp_turnover_excluding_vat", 0),
         avg_script_value |-> Get(dispensary, "avg_script_value", 0),
         stock_opening |-> Get(trading, "stock_opening", 0),
         stock_closing |-> Get(trading, "stock_closing", 0),
         purchases |-> Get(trading, "purchases", 0),
         adjustments |-> Get(trading, "adjustments", 0),
         cost_of_sales |-> Get(trading, "cost_of_sales", 0),
         gp_value |-> Get(trading, "gp_value", 0),
         gp_percent |-> Get(trading, "gp_percent", 0),
         sales_cash |-> Get(turnover, "sales_cash", 0),
         sales_account |-> Get(turnover, "sales_account", 0),
         sales_cod |-> Get(turnover, "sales_cod", 0),
         type_r_sales |-> Get(turnover, "type_r_sales", 0)] :
            basket_size \in calculate_basket_size(transactions_total, total_products_sold),
            basket_value \in calculate_basket_value(turnover_value, transactions_total)}

\* The candidate records a run can bring to the reconciliation step. The turnover of
\* a record that gets this far is a number: extract_and_process_all_data formats it
\* with :,.2f in its summary log, which raises on None and ends the run.
Candidates ==
    UNION {calculate_derived_metrics(MergedRecord(t, x)) : t \in Amounts, x \in Values}

\* The candidates of the two-branch batches: every field carries the day's turnover,
\* or the turnover is zero and the other trading, payment and dispensary amounts
\* are missing.
BatchCandidates ==
    UNION {calculate_derived_metrics(MergedRecord(t, t)) : t \in 1..MaxVal}
        \cup calculate_derived_metrics(MergedRecord(0, None))

----------------------------------------------------------------------------
(* compare_and_keep_largest                                                 *)

\* `new_value > existing_value` with new_value None raises TypeError.
CompareRaises(existing_value, new_value) ==
    /\ ~(existing_value = None \/ existing_value = 0)
    /\ new_value = None

\* Variant that accumulates the candidate onto the stored value instead of choosing.
compare_and_accumulate(existing_value, new_value) ==
    IF existing_value = None \/ existing_value = 0
    THEN new_value
    ELSE existing_value + new_value

\* Variant that keeps the smaller of two amounts.
compare_and_keep_smallest(existing_value, new_value) ==
    IF existing_value = None \/ existing_value = 0
    THEN new_value
    ELSE IF new_value < existing_value
         THEN new_value
         ELSE existing_value

compare_and_keep_largest(existing_value, new_value) ==
    IF existing_value = None \/ existing_value = 0
    THEN new_value
    ELSE IF new_value > existing_value
         THEN new_value
         ELSE existing_value

----------------------------------------------------------------------------
(* The store: get_existing_data, the upsert of update_database_record       *)

\* Variant without the date test: every group goes on to the upsert.
NeverUnresolved(key) == FALSE

\* Whether the report date of a combined_data key is unusable (`not date`).
Unresolved(key) == key[2] = NoDate

\* get_existing_data: dict(result[0]) when the SELECT returns a row; {} when it
\* returns none and also when execute_query raises (the except returns {}).
get_existing_data(db, key, fetch_ok) ==
    IF fetch_ok /\ key \in DOMAIN db THEN db[key] ELSE EmptyDict

\* Variant whose bundle always comes from the candidate, whoever holds the turnover.
FinalMetricsBundleFromNew(existing_data, calculated) ==
    [f \in MetricFields |->
        IF f \in KeepLargestFields
        THEN compare_and_keep_largest(Get(existing_data, f, 0), Get(calculated, f, 0))
        ELSE Get(calculated, f, 0)]

\* The 13 keep-largest assignments and the bundle of compare_with_database_and_update.
FinalMetrics(existing_data, calculated) ==
    LET largest == [f \in KeepLargestFields |->
                       compare_and_keep_largest(Get(existing_data, f, 0),
                                                Get(calculated, f, 0))]
        from_new == largest["turnover"] = Get(calculated, "turnover", 0)
    IN  [f \in MetricFields |->
            IF f \in KeepLargestFields THEN largest[f]
            ELSE IF from_new THEN Get(calculated, f, 0)
                 ELSE Get(existing_data, f, 0)]

\* One of the 13 comparisons raises TypeError; nothing catches it inside the loop.
ReconcileRaises(existing_data, calculated) ==
    \E f \in KeepLargestFields :
        CompareRaises(Get(existing_data, f, 0), Get(calculated, f, 0))

\* INSERT ... ON CONFLICT (pharmacy_id, report_date) DO UPDATE SET every metric column.
Upsert(db, key, metrics) ==
    [k \in DOMAIN db \cup {key} |->
        IF k = key THEN [f \in MetricFields |-> Get(metrics, f, 0)] ELSE db[k]]

\* Variant in which the upsert and the rollup refresh share one transaction.
StoreAfterUpdateOneTransaction(db, key, metrics, upsert_ok, rollup_ok) ==
    IF upsert_ok /\ rollup_ok THEN Upsert(db, key, metrics) ELSE db

\* The table after update_database_record: execute_query commits the upsert before
\* refresh_rollups runs, so a failed refresh leaves the row written; a failed upsert
\* is rolled back.
StoreAfterUpdate(db, key, metrics, upsert_ok, rollup_ok) ==
    IF upsert_ok THEN Upsert(db, key, metrics) ELSE db

\* Variant in which a failed upsert leaves update_database_record as an exception.
PcAfterUpdatePropagating(upsert_ok, rollup_ok) ==
    IF upsert_ok THEN "reconcile" ELSE "failed"

\* Where the loop stands after update_database_record: its try/except (and the one
\* inside refresh_rollups) logs every exception, so the loop goes on.
PcAfterUpdate(upsert_ok, rollup_ok) == "reconcile"

\* Where the loop stands after the `continue` of an unresolved date.
PcAfterSkip == "reconcile"

\* Largest of two values, None being no value.
MaxValue(a, b) == IF a >= b THEN a ELSE b

Observe(obs, key, calculated) ==
    [k \in DOMAIN obs \cup {key} |->
        IF k = key
        THEN [f \in MetricFields |->
                 MaxValue(IF key \in DOMAIN obs THEN obs[key][f] ELSE None, calculated[f])]
        ELSE obs[k]]

\* Variant that requests the rollup refresh in a `finally`, whatever the upsert did.
StoreCallsRollupAlways(key, upsert_ok) ==
    <<<<"select", key>>, <<"upsert", key>>, <<"refresh_rollups", key>>>>

\* The store calls of one iteration that reaches update_database_record, in the order
\* issued: the SELECT of get_existing_data, the upsert, and refresh_rollups, which
\* stands after execute_query inside the same try and so is skipped when it raises.
StoreCalls(key, upsert_ok) ==
    <<<<"select", key>>, <<"upsert", key>>>>
        \o (IF upsert_ok THEN <<<<"refresh_rollups", key>>>> ELSE << >>)

NoIteration ==
    [key |-> <<"", NoDate>>, outcome |-> "none", fetch_ok |-> TRUE, rollup |-> "none",
     calculated |-> EmptyDict, existing_data |-> EmptyDict, final_metrics |-> EmptyDict,
     calls |-> << >>]

----------------------------------------------------------------------------
(* Actions                                                                  *)

\* The pipeline after construction, the table empty.
ReconcileIdle ==
    /\ store = [k \in {} |-> EmptyDict]
    /\ pc = "idle"
    /\ pending = {}
    /\ last = NoIteration
    /\ observed = [k \in {} |-> EmptyDict]

Init ==
    /\ ReconcileIdle
    /\ ServiceIdle
    /\ DedupIdle
    /\ AggregateIdle
    /\ ClassifyIdle
    /\ MetricsIdle
    /\ ExtractIdle
    /\ DateIdle
    /\ MonitorIdle
    /\ SchedulerIdle

\* run_complete_pipeline reaches step 3 with a non-empty combined_data over `keys`.
StartRun(keys) ==
    /\ pc # "reconcile"
    /\ \E batch \in SUBSET keys \ {{}} : pending' = batch
    /\ pc' = "reconcile"
    /\ last' = NoIteration
    /\ UNCHANGED <<store, observed>>

\* Loop iteration on a key whose date is unresolved: logged and skipped.
SkipGroup(key) ==
    /\ pc = "reconcile"
    /\ key \in pending
    /\ Unresolved(key)
    /\ pc' = PcAfterSkip
    /\ pending' = IF pc' = "reconcile" THEN pending \ {key} ELSE {}
    /\ last' = [NoIteration EXCEPT !.key = key, !.outcome = "skipped"]
    /\ UNCHANGED <<store, observed>>

\* Loop iteration in which a comparison raises: the exception leaves
\* compare_with_database_and_update and run_complete_pipeline.
RaiseGroup(key, calculated, fetch_ok) ==
    LET existing_data == get_existing_data(store, key, fetch_ok)
    IN  /\ pc = "reconcile"
        /\ key \in pending
        /\ ~Unresolved(key)
        /\ ReconcileRaises(existing_data, calculated)
        /\ pc' = "failed"
        /\ pending' = {}
        /\ last' = [NoIteration EXCEPT !.key = key, !.outcome = "raised",
                       !.fetch_ok = fetch_ok, !.calculated = calculated,
                       !.existing_data = existing_data,
                       !.calls = <<<<"select", key>>>>]
        /\ UNCHANGED <<store, observed>>

\* Loop iteration that reaches update_database_record: the upsert commits or raises
\* (caught and logged), and after a commit refresh_rollups succeeds or fails (caught).
ReconcileGroup(key, calculated, fetch_ok, upsert_ok, rollup_ok) ==
    LET existing_data == get_existing_data(store, key, fetch_ok)
        final_metrics == FinalMetrics(existing_data, calculated)
    IN  /\ pc = "reconcile"
        /\ key \in pending
        /\ ~Unresolved(key)
        /\ ~ReconcileRaises(existing_data, calculated)
        /\ upsert_ok \/ rollup_ok
        /\ store' = StoreAfterUpdate(store, key, final_metrics, upsert_ok, rollup_ok)
        /\ observed' = IF upsert_ok THEN Observe(observed, key, calculated) ELSE observed
        /\ pc' = PcAfterUpdate(upsert_ok, rollup_ok)
        /\ pending' = IF pc' = "reconcile" THEN pending \ {key} ELSE {}
        /\ last' = [key |-> key,
                    outcome |-> IF upsert_ok THEN "upserted" ELSE "upsert_failed",
                    fetch_ok |-> fetch_ok,
                    rollup |-> IF ~upsert_ok THEN "none"
                               ELSE IF rollup_ok THEN "refreshed" ELSE "failed",
                    calculated |-> calculated,
                    existing_data |-> existing_data,
                    final_metrics |-> final_metrics,
                    calls |-> StoreCalls(key, upsert_ok)]

\* The loop has gone through every key of combined_data.
FinishRun ==
    /\ pc = "reconcile"
    /\ pending = {}
    /\ pc' = "done"
    /\ UNCHANGED <<store, pending, last, observed>>

\* Runs of one branch, over every candidate record.
Next ==
    \/ StartRun(BranchKeys) /\ UNCHANGED outsideReconcile
    \/ \E key \in BranchKeys : SkipGroup(key) /\ UNCHANGED outsideReconcile
    \/ \E key \in BranchKeys, calculated \in Candidates, fetch_ok \in BOOLEAN :
          RaiseGroup(key, calculated, fetch_ok) /\ UNCHANGED outsideReconcile
    \/ \E key \in BranchKeys, calculated \in Candidates,
          fetch_ok \in BOOLEAN, upsert_ok \in BOOLEAN, rollup_ok \in BOOLEAN :
          ReconcileGroup(key, calculated, fetch_ok, upsert_ok, rollup_ok)
              /\ UNCHANGED outsideReconcile
    \/ FinishRun /\ UNCHANGED outsideReconcile

Spec == Init /\ [][Next]_vars

\* Runs over both branches, each batch holding up to three groups.
NextBatch ==
    \/ StartRun(GroupKeys) /\ UNCHANGED outsideReconcile
    \/ \E key \in GroupKeys : SkipGroup(key) /\ UNCHANGED outsideReconcile
    \/ \E key \in GroupKeys, calculated \in BatchCandidates, fetch_ok \in BOOLEAN :
          RaiseGroup(key, calculated, fetch_ok) /\ UNCHANGED outsideReconcile
    \/ \E key \in GroupKeys, calculated \in BatchCandidates,
          fetch_ok \in BOOLEAN, upsert_ok \in BOOLEAN, rollup_ok \in BOOLEAN :
          ReconcileGroup(key, calculated, fetch_ok, upsert_ok, rollup_ok)
              /\ UNCHANGED outsideReconcile
    \/ FinishRun /\ UNCHANGED outsideReconcile

SpecBatch == Init /\ [][NextBatch]_vars

----------------------------------------------------------------------------
(* The web service: start_scheduler, stop_scheduler, /check-now,            *)
(* run_improved_pipeline. Each pass reconciles the one group ServiceKey.    *)

ServiceKey == <<"REITZ", "2025-08-05">>

\* What the steps of the web service leave alone.
outsideService ==
    <<pc, pending, last, observed, dedupVars, aggregateVars, classifyVars,
      metricsVars, extractVars, dateVars, monitorVars, schedulerVars>>

\* start_scheduler: returns at once when is_running is set, else sets it and
\* starts the thread that runs the scheduled job.
start_scheduler ==
    /\ ~is_running
    /\ is_running' = TRUE
    /\ UNCHANGED <<store, run_pc, run_local>>

\* stop_scheduler: clears the flag and the schedule; a pass in progress goes on.
stop_scheduler ==
    /\ is_running
    /\ is_running' = FALSE
    /\ UNCHANGED <<store, run_pc, run_local>>

\* run_improved_pipeline entered by trigger t: nothing in the function looks at
\* whether another call is in progress.
run_improved_pipeline(t) ==
    /\ run_pc' = [run_pc EXCEPT ![t] = "classify"]
    /\ UNCHANGED <<store, is_running, run_local>>

\* The scheduler thread: schedule.run_pending() calls the job inside the thread's
\* loop, so the thread starts a pass only when its previous one has returned.
scheduled_run ==
    /\ is_running
    /\ run_pc["scheduler"] = "idle"
    /\ run_improved_pipeline("scheduler")

\* POST /check-now: the request thread calls run_improved_pipeline directly.
manual_check ==
    /\ run_pc["check_now"] = "idle"
    /\ run_improved_pipeline("check_now")

\* Step 1, classifier.process_emails_and_classify: on failure the call returns.
Classify(t, classification_success) ==
    /\ run_pc[t] = "classify"
    /\ run_pc' = [run_pc EXCEPT ![t] = IF classification_success THEN "pipeline"
                                                                ELSE "idle"]
    /\ UNCHANGED <<store, is_running, run_local>>

\* Step 2, run_complete_pipeline up to calculate_derived_metrics.
ExtractAll(t, calculated) ==
    /\ run_pc[t] = "pipeline"
    /\ run_local' = [run_local EXCEPT ![t].calculated = calculated]
    /\ run_pc' = [run_pc EXCEPT ![t] = "reconcile"]
    /\ UNCHANGED <<store, is_running>>

\* get_existing_data of the pass, read into the local existing_data.
FetchExisting(t) ==
    /\ run_pc[t] = "reconcile"
    /\ run_local' = [run_local EXCEPT
                        ![t].existing_data = get_existing_data(store, ServiceKey, TRUE)]
    /\ run_pc' = [run_pc EXCEPT ![t] = "fetched"]
    /\ UNCHANGED <<store, is_running>>

\* The comparisons and the upsert of the pass, from the locals read earlier; a
\* TypeError of a comparison ends the pass in the except of run_complete_pipeline.
UpsertFinal(t) ==
    LET existing_data == run_local[t].existing_data
        calculated == run_local[t].calculated
    IN  /\ run_pc[t] = "fetched"
        /\ store' = IF ReconcileRaises(existing_data, calculated)
                    THEN store
                    ELSE Upsert(store, ServiceKey, FinalMetrics(existing_data, calculated))
        /\ run_pc' = [run_pc EXCEPT ![t] = "idle"]
        /\ run_local' = [run_local EXCEPT ![t] = NoLocals]
        /\ UNCHANGED is_running

NextService ==
    \/ start_scheduler /\ UNCHANGED outsideService
    \/ stop_scheduler /\ UNCHANGED outsideService
    \/ scheduled_run /\ UNCHANGED outsideService
    \/ manual_check /\ UNCHANGED outsideService
    \/ \E t \in Triggers, classification_success \in BOOLEAN :
          Classify(t, classification_success) /\ UNCHANGED outsideService
    \/ \E t \in Triggers, calculated \in BatchCandidates :
          ExtractAll(t, calculated) /\ UNCHANGED outsideService
    \/ \E t \in Triggers : FetchExisting(t) /\ UNCHANGED outsideService
    \/ \E t \in Triggers : UpsertFinal(t) /\ UNCHANGED outsideService

SpecService == Init /\ [][NextService]_vars

----------------------------------------------------------------------------
(* keep_latest_versions (test_deduplication.py)                             *)

\* Most PDFs the classified tree holds in the model.
MaxFiles == 3

\* (date folder, pharmacy folder, report_type of the file name).
DedupGroups ==
    {<<"2025-08-05", "REITZ", "trading_summary">>,
     <<"2025-08-05", "REITZ", "turnover_summary">>}

\* The HHMM part of a file name, a string of four digits.
Markers == {<<0, 9, 5, 9>>, <<1, 0, 0, 0>>, <<1, 4, 3, 0>>}

\* A PDF of the tree: its group, its marker and the rest of its name; `matches`
\* tells whether the name has the form <report_type>_<HHMM>_<rest>.pdf.
PdfFiles ==
    {[key |-> g, time |-> hhmm, rest |-> "a", matches |-> TRUE] :
        g \in DedupGroups, hhmm \in Markers}
    \cup {[key |-> <<"2025-08-05", "REITZ", "trading_summary">>,
           time |-> <<1, 4, 3, 0>>, rest |-> "b", matches |-> TRUE],
          [key |-> <<"2025-08-05", "REITZ", "">>,
           time |-> <<0, 0, 0, 0>>, rest |-> "report.pdf", matches |-> FALSE]}

\* The orders in which rglob can yield up to MaxFiles distinct files.
FileListings ==
    {fs \in UNION {[1..n -> PdfFiles] : n \in 0..MaxFiles} :
        \A i, j \in 1..Len(fs) : i # j => fs[i] # fs[j]}

\* Variant that compares the markers the other way round.
StrLess(a, b) ==
    \E i \in 1..4 :
        /\ \A j \in 1..(i - 1) : a[j] = b[j]
        /\ a[i] < b[i]

\* Variant that also lets an equal marker replace the recorded one.
StrGreaterOrEqual(a, b) ==
    \/ a = b
    \/ \E i \in 1..4 :
          /\ \A j \in 1..(i - 1) : a[j] = b[j]
          /\ a[i] > b[i]

\* Python's `>` on two strings of four digits: the first differing character decides.
StrGreater(a, b) ==
    \E i \in 1..4 :
        /\ \A j \in 1..(i - 1) : a[j] = b[j]
        /\ a[i] > b[i]

\* Variant that leaves the report type out of the key.
FolderKey(pdf) == <<pdf.key[1], pdf.key[2], "">>

\* key = (date_str, pharmacy, report_type) of a file whose name matches.
GroupKey(pdf) == pdf.key

\* keep_latest_versions is called on a tree holding `files`.
DedupInit ==
    /\ files \in FileListings
    /\ latest_map = [k \in {} |-> << >>]
    /\ to_remove = {}
    /\ scan_pos = 1

\* One iteration of the first loop: a name that does not match is passed over;
\* otherwise the file becomes the latest of its key when the key is new or its
\* marker is greater than the recorded one.
ScanFile ==
    /\ scan_pos \in 1..Len(files)
    /\ LET pdf == files[scan_pos]
           key == GroupKey(pdf)
       IN  latest_map' =
               IF pdf.matches /\ (key \notin DOMAIN latest_map
                                    \/ StrGreater(pdf.time, latest_map[key].time))
               THEN [k \in DOMAIN latest_map \cup {key} |->
                        IF k = key THEN pdf ELSE latest_map[k]]
               ELSE latest_map
    /\ scan_pos' = scan_pos + 1
    /\ UNCHANGED <<files, to_remove>>

\* One iteration of the second loop: a matching file that is not the latest of its
\* key is reported for removal.
FlagFile ==
    /\ scan_pos \in (Len(files) + 1)..(2 * Len(files))
    /\ LET pdf == files[scan_pos - Len(files)]
       IN  to_remove' =
               IF pdf.matches /\ GroupKey(pdf) \in DOMAIN latest_map
                             /\ latest_map[GroupKey(pdf)] # pdf
               THEN to_remove \cup {pdf}
               ELSE to_remove
    /\ scan_pos' = scan_pos + 1
    /\ UNCHANGED <<files, latest_map>>

\* What keep_latest_versions leaves alone.
outsideDedup ==
    <<store, pc, pending, last, observed, serviceVars, aggregateVars, classifyVars,
      metricsVars, extractVars, dateVars, monitorVars, schedulerVars>>

NextDedup ==
    \/ ScanFile /\ UNCHANGED outsideDedup
    \/ FlagFile /\ UNCHANGED outsideDedup

InitDedup ==
    /\ DedupInit
    /\ ReconcileIdle
    /\ ServiceIdle
    /\ AggregateIdle
    /\ ClassifyIdle
    /\ MetricsIdle
    /\ ExtractIdle
    /\ DateIdle
    /\ MonitorIdle
    /\ SchedulerIdle

SpecDedup == InitDedup /\ [][NextDedup]_vars

----------------------------------------------------------------------------
(* The aggregation loops of extract_and_process_all_data, for one key       *)

\* Most extracted documents one (pharmacy, date) has in the model.
MaxItems == 3

\* The data types in the order the outer loop takes them (rank, data_type).
DataTypes ==
    <<"trading", "turnover", "transaction", "gross_profit", "dispensary">>

\* The slot of combined_data[key] a data type is stored in.
SlotOf(data_type) ==
    CASE data_type = "trading" -> "trading_summary"
      [] data_type = "turnover" -> "turnover_summary"
      [] data_type = "transaction" -> "transaction_summary"
      [] data_type = "gross_profit" -> "gross_profit_summary"
      [] data_type = "dispensary" -> "dispensary_summary"

\* The key the loop body reads with item.get(..., 0) to compare two items.
CompareKey(data_type) ==
    CASE data_type = "trading" -> "turnover"
      [] data_type = "turnover" -> "turnover"
      [] data_type = "transaction" -> "transactions_total"
      [] data_type = "gross_profit" -> "total_gross_profit"
      [] data_type = "dispensary" -> "script_total"

\* An extracted item as the JSON files hold it: the extractor's result spread into
\* the item; extract_gross_profit_data returns its totals inside summary_stats.
Item(data_type, file, v) ==
    CASE data_type = "trading" -> [data_type |-> data_type, file |-> file, turnover |-> v]
      [] data_type = "turnover" -> [data_type |-> data_type, file |-> file, turnover |-> v]
      [] data_type = "transaction" ->
            [data_type |-> data_type, file |-> file, transactions_total |-> v]
      [] data_type = "gross_profit" ->
            [data_type |-> data_type, file |-> file,
             summary_stats |-> [total_gross_profit |-> v]]
      [] data_type = "dispensary" ->
            [data_type |-> data_type, file |-> file, script_total |-> v]

\* The metric values an item of a data type can carry: the trading, turnover and
\* dispensary extractors leave an unmatched field None, the other two always count.
ItemMetrics(data_type) ==
    IF data_type \in {"transaction", "gross_profit"} THEN {1, 2} ELSE {None, 1, 2}

\* The loaded lists of one key, concatenated in the order of the outer loop.
DataLists ==
    {[i \in 1..Len(ranks) |-> Item(DataTypes[ranks[i][1]], i, ranks[i][2])] :
        ranks \in {r \in UNION {[1..n -> (1..5) \X {None, 1, 2}] : n \in 1..MaxItems} :
                     /\ \A i \in 1..Len(r) : r[i][2] \in ItemMetrics(DataTypes[r[i][1]])
                     /\ \A i \in 1..(Len(r) - 1) : r[i][1] <= r[i + 1][1]}}

\* The five slots of a new combined_data[key].
EmptySlots ==
    [slot \in {"trading_summary", "turnover_summary", "transaction_summary",
               "gross_profit_summary", "dispensary_summary"} |-> EmptyDict]

\* `item.get(k, 0) > existing.get(k, 0)` with None on either side raises TypeError.
AggregateRaises(existing, item) ==
    /\ existing # EmptyDict
    /\ \/ Get(item, CompareKey(item.data_type), 0) = None
       \/ Get(existing, CompareKey(item.data_type), 0) = None

\* `not existing or item.get(k, 0) > existing.get(k, 0)`.
ReplacesSlot(existing, item) ==
    \/ existing = EmptyDict
    \/ Get(item, CompareKey(item.data_type), 0)
           > Get(existing, CompareKey(item.data_type), 0)

AggregateInit ==
    /\ data_list \in DataLists
    /\ combined_data = EmptySlots
    /\ agg_pos = 1

\* One iteration of the inner loop.
AggregateItem ==
    /\ agg_pos \in 1..Len(data_list)
    /\ LET item == data_list[agg_pos]
           slot == SlotOf(item.data_type)
           existing == combined_data[slot]
       IN  /\ ~AggregateRaises(existing, item)
           /\ combined_data' = IF ReplacesSlot(existing, item)
                               THEN [combined_data EXCEPT ![slot] = item]
                               ELSE combined_data
    /\ agg_pos' = agg_pos + 1
    /\ UNCHANGED data_list

\* The comparison of an iteration raises: the exception leaves the loops.
AggregateAborts ==
    /\ agg_pos \in 1..Len(data_list)
    /\ LET item == data_list[agg_pos]
       IN  AggregateRaises(combined_data[SlotOf(item.data_type)], item)
    /\ agg_pos' = 0
    /\ UNCHANGED <<data_list, combined_data>>

\* What the aggregation leaves alone.
outsideAggregate ==
    <<store, pc, pending, last, observed, serviceVars, dedupVars, classifyVars,
      metricsVars, extractVars, dateVars, monitorVars, schedulerVars>>

NextAggregate ==
    \/ AggregateItem /\ UNCHANGED outsideAggregate
    \/ AggregateAborts /\ UNCHANGED outsideAggregate

InitAggregate ==
    /\ AggregateInit
    /\ ReconcileIdle
    /\ ServiceIdle
    /\ DedupIdle
    /\ ClassifyIdle
    /\ MetricsIdle
    /\ ExtractIdle
    /\ DateIdle
    /\ MonitorIdle
    /\ SchedulerIdle

SpecAggregate == InitAggregate /\ [][NextAggregate]_vars

----------------------------------------------------------------------------
(* classify_pdf (improved_classify_and_organize.py, classify_and_organize_pdfs.py) *)

\* Most keyword phrases a text contains in the model.
MaxPhrases == 3

\* REPORT_KEYWORDS, in declaration order (the order dict iteration follows).
ReportTypes ==
    <<"turnover_summary", "gross_profit_report", "trading_summary",
      "dispensary_summary", "transaction_summary">>

REPORT_KEYWORDS ==
    [turnover_summary |-> {"TOTAL TURNOVER", "GP %", "BASKET VALUE", "TRANSACTIONS"},
     gross_profit_report |-> {"GROSS PROFIT", "STOCK CODE", "SALES QTY", "DEPT"},
     trading_summary |-> {"OPENING STOCK", "CLOSING STOCK", "PURCHASES", "ADJUSTMENTS"},
     dispensary_summary |-> {"SCRIPT STATISTICS", "CLAIMABLE SCRIPTS", "PRIVATE SCRIPTS",
                             "DOCTOR SCRIPT"},
     transaction_summary |-> {"INVOICING AUDIT TRAIL"}]

\* An upper-cased text, as the set of keyword phrases that occur in it (no keyword
\* is a substring of another, so any combination can occur).
Texts ==
    {t \in SUBSET (UNION {REPORT_KEYWORDS[ReportTypes[i]] : i \in 1..5}) :
        Cardinality(t) <= MaxPhrases}

\* sum(1 for kw in keywords if kw in text)
Score(keywords, t) == Cardinality({kw \in keywords : kw \in t})

RECURSIVE LastMaxKey(_, _)
\* Variant of max that lets a later key with an equal score win.
LastMaxKey(sc, n) ==
    IF n = 1 THEN 1
    ELSE LET best == LastMaxKey(sc, n - 1)
         IN  IF sc[ReportTypes[n]] >= sc[ReportTypes[best]] THEN n ELSE best

RECURSIVE MaxKey(_, _)
\* max(scores, key=scores.get) over the first n keys: the index of the first key
\* with the largest score (max keeps the earlier item on a tie).
MaxKey(sc, n) ==
    IF n = 1 THEN 1
    ELSE LET best == MaxKey(sc, n - 1)
         IN  IF sc[ReportTypes[n]] > sc[ReportTypes[best]] THEN n ELSE best

\* classify_pdf is called on a PDF whose first two pages read `text`.
ClassifyInit ==
    /\ text \in Texts
    /\ scores = [report_type \in {} |-> 0]
    /\ best_match = ""

\* The scoring loop.
ScoreKeywords ==
    /\ DOMAIN scores = {}
    /\ text \in Texts
    /\ best_match = ""
    /\ scores' = [report_type \in DOMAIN REPORT_KEYWORDS |->
                     Score(REPORT_KEYWORDS[report_type], text)]
    /\ UNCHANGED <<text, best_match>>

\* best_match = max(...); "unknown" when its score is 0.
ReturnBestMatch ==
    /\ DOMAIN scores # {}
    /\ best_match = ""
    /\ LET best == ReportTypes[MaxKey(scores, 5)]
       IN  best_match' = IF scores[best] = 0 THEN "unknown" ELSE best
    /\ UNCHANGED <<text, scores>>

\* What classify_pdf leaves alone.
outsideClassify ==
    <<store, pc, pending, last, observed, serviceVars, dedupVars, aggregateVars,
      metricsVars, extractVars, dateVars, monitorVars, schedulerVars>>

NextClassify ==
    \/ ScoreKeywords /\ UNCHANGED outsideClassify
    \/ ReturnBestMatch /\ UNCHANGED outsideClassify

InitClassify ==
    /\ ClassifyInit
    /\ ReconcileIdle
    /\ ServiceIdle
    /\ DedupIdle
    /\ AggregateIdle
    /\ MetricsIdle
    /\ ExtractIdle
    /\ DateIdle
    /\ MonitorIdle
    /\ SchedulerIdle

SpecClassify == InitClassify /\ [][NextClassify]_vars

----------------------------------------------------------------------------
(* calculate_derived_metrics on one combined_data entry                     *)

\* Largest transaction count of an entry in the model.
MaxCount == 3
\* Largest turnover and largest quantity sold of an entry, in hundredths.
MaxHundredths == 7

\* An entry with the given turnover, transaction count and quantity sold, every
\* other extracted amount being 0.
BasketRecord(turnover, transactions_total, total_sales_qty) ==
    [MergedRecord(turnover, 0) EXCEPT
        !.transaction_summary = [transactions_total |-> transactions_total],
        !.gross_profit_summary = [summary_stats |-> [total_sales_qty |-> total_sales_qty]]]

BasketRecords ==
    {BasketRecord(turnover, transactions_total, total_sales_qty) :
        turnover \in 0..MaxHundredths, transactions_total \in 0..MaxCount,
        total_sales_qty \in 0..MaxHundredths}

MetricsInit ==
    /\ merged_data \in BasketRecords
    /\ calculated_metrics = EmptyDict

\* The body of the loop of calculate_derived_metrics for the entry.
CalculateEntry ==
    /\ merged_data # EmptyDict
    /\ calculated_metrics = EmptyDict
    /\ calculated_metrics' \in calculate_derived_metrics(merged_data)
    /\ UNCHANGED merged_data

\* What calculate_derived_metrics leaves alone.
outsideMetrics ==
    <<store, pc, pending, last, observed, serviceVars, dedupVars, aggregateVars,
      classifyVars, extractVars, dateVars, monitorVars, schedulerVars>>

NextMetrics == CalculateEntry /\ UNCHANGED outsideMetrics

InitMetrics ==
    /\ MetricsInit
    /\ ReconcileIdle
    /\ ServiceIdle
    /\ DedupIdle
    /\ AggregateIdle
    /\ ClassifyIdle
    /\ ExtractIdle
    /\ DateIdle
    /\ MonitorIdle
    /\ SchedulerIdle

SpecMetrics == InitMetrics /\ [][NextMetrics]_vars

----------------------------------------------------------------------------
(* The category extractors: extract_*_summary_data on the text of one PDF   *)

\* Most lines of a text in the model.
MaxLines == 2
\* Largest count written in a text.
MaxInt == 2

\* One whitespace-separated group of a line that follows its label: value is the
\* number its digits spell (None for a group of separators only, such as ","),
\* minus says whether a "-" trails it.
Group(value, minus) == [value |-> value, minus |-> minus]

\* A line of the text: the words of its label and the groups after them.
Line(label, groups) == [label |-> label, groups |-> groups]

\* The sequences over S of length at most n.
SeqsUpTo(S, n) == UNION {[1..k -> S] : k \in 0..n}

\* `docket_type in line.upper()`, word by word: words occur contiguously in label.
Contains(label, words) ==
    \E i \in 1..(Len(label) - Len(words) + 1) :
        SubSeq(label, i, i + Len(words) - 1) = words

\* The list docket_types, in the order the loop tries them.
docket_types ==
    << <<"CASH", "SALE">>, <<"C.O.D", "SALE">>, <<"INVOICE">>, <<"CASH", "REFUND">>,
       <<"CREDIT", "NOTE">>, <<"RECEIPT">>, <<"RECEIPT", "COD">>,
       <<"SCRIPT">>, <<"SCRIPT", "REFUND">>, <<"MEDICAL", "AIDS">>,
       <<"LEVY", "DEBITS">>, <<"LEVY", "CREDITS">> >>

\* Index of the docket type the inner loop stops at for the line: the first of
\* the list the line contains (0 when it contains none).
MatchedDocketType(line) ==
    LET hits == {i \in 1..Len(docket_types) : Contains(line.label, docket_types[i])}
    IN  IF hits = {} THEN 0 ELSE CHOOSE i \in hits : \A j \in hits : i <= j

\* Group 1 of rf'{docket_type}.*?(\d+)': the first run of digits after the label
\* (None when no digit follows it).
FirstInteger(groups) ==
    LET digits == {i \in 1..Len(groups) : groups[i].value # None}
    IN  IF digits = {} THEN None
        ELSE groups[CHOOSE i \in digits : \A j \in digits : i <= j].value

\* transaction_breakdown after `+= accno_value` under docket_type.
AddToBreakdown(breakdown, docket_type, accno_value) ==
    [d \in DOMAIN breakdown \cup {docket_type} |->
        IF d = docket_type
        THEN (IF d \in DOMAIN breakdown THEN breakdown[d] ELSE 0) + accno_value
        ELSE breakdown[d]]

\* The loop over the lines from line n on, with the running total and breakdown.
RECURSIVE ScanLines(_, _, _, _)
ScanLines(lines, n, total_transactions, breakdown) ==
    IF n > Len(lines)
    THEN [transactions_total |-> total_transactions,
          transaction_breakdown |-> breakdown,
          avg_basket_value |-> None]
    ELSE LET t == MatchedDocketType(lines[n])
             accno_value == FirstInteger(lines[n].groups)
         IN  IF t = 0 \/ accno_value = None
             THEN ScanLines(lines, n + 1, total_transactions, breakdown)
             ELSE ScanLines(lines, n + 1, total_transactions + accno_value,
                            AddToBreakdown(breakdown, docket_types[t], accno_value))

\* extract_transaction_summary_data on a text of the given lines.
extract_transaction_summary_data(lines) ==
    [raised |-> FALSE, fields |-> ScanLines(lines, 1, 0, EmptyDict)]

\* The labels of the lines of a transaction summary in the model.
TransactionLabels ==
    {<<"CASH", "SALE">>, <<"RECEIPT">>, <<"RECEIPT", "COD">>, <<"SCRIPT">>,
     <<"SCRIPT", "REFUND">>, <<"PAID", "OUT">>}

\* The columns after the label of such a line: up to two, each a count or blank
\* of digits.
TransactionGroups ==
    LET cells == {Group(v, FALSE) : v \in (1..MaxInt) \cup {None}}
    IN  {<< >>} \cup {<<a>> : a \in cells} \cup {<<a, b>> : a \in cells, b \in cells}

TransactionTexts ==
    SeqsUpTo({Line(l, g) : l \in TransactionLabels, g \in TransactionGroups}, MaxLines)

\* The fields of extract_turnover_summary_data and the label of the totals line
\* the first pattern of each looks for.
TotalsLabel ==
    [turnover |-> <<"TOTAL", "TURNOVER">>,
     sales_cash |-> <<"CASH", "TOTALS">>,
     sales_account |-> <<"STANDARD", "ACCOUNTS">>,
     sales_cod |-> <<"C.O.D.", "ACCOUNTS">>]

\* The first pattern of a field matches at the line: the label, then three amounts
\* separated by blanks, of which only the second may carry a trailing "-".
TotalsLineMatches(line, label) ==
    /\ line.label = label
    /\ Len(line.groups) >= 3
    /\ \A k \in 1..3 : line.groups[k].value # None
    /\ ~line.groups[1].minus

\* match.group(3): the third amount as the pattern captures it. The third group
\* of the pattern ends at the two decimals, so a "-" after them is not captured.
CapturedGroup3(line) == Group(line.groups[3].value, FALSE)

\* "Handle negative values": the captured string to a float.
SignedValue(value_str) ==
    IF value_str.minus THEN 0 - value_str.value ELSE value_str.value

\* extract_turnover_summary_data on a text of the given lines. The second pattern
\* of 'turnover' needs the heading "Nett (Exclusive)" after an amount, which no
\* text of the model carries.
extract_turnover_summary_data(lines) ==
    [raised |-> FALSE,
     fields |-> [field \in DOMAIN TotalsLabel |->
        LET hits == {i \in 1..Len(lines) : TotalsLineMatches(lines[i], TotalsLabel[field])}
        IN  IF hits = {} THEN None
            ELSE SignedValue(CapturedGroup3(
                    lines[CHOOSE i \in hits : \A j \in hits : i <= j]))]]

\* The totals lines of a turnover summary in the model, amounts in hundredths:
\* gross, discount and net, or gross and discount only; the discount and the net
\* with or without a trailing "-".
TurnoverLines ==
    {Line(TotalsLabel[field],
          <<Group(100 * n + 50, FALSE), Group(50, m2), Group(100 * n, m3)>>) :
        field \in DOMAIN TotalsLabel, n \in 1..MaxInt, m2 \in BOOLEAN, m3 \in BOOLEAN}
    \cup
    {Line(TotalsLabel[field], <<Group(100 * n + 50, FALSE), Group(50, m2)>>) :
        field \in DOMAIN TotalsLabel, n \in 1..MaxInt, m2 \in BOOLEAN}

TurnoverTexts == SeqsUpTo(TurnoverLines, MaxLines)

\* An exact quotient num / den of two floats (num = None: the value None).
Quotient(num, den) == [num |-> num, den |-> den]
NullQuotient == Quotient(None, 1)

\* The label every script_total pattern starts from.
DocumentsDispensed == <<"NUMBER", "OF", "DOCUMENTS", "-", "DISPENSED">>

\* The label ends with the given words.
EndsWith(label, words) ==
    /\ Len(label) >= Len(words)
    /\ SubSeq(label, Len(label) - Len(words) + 1, Len(label)) = words

\* The last part of the line for which part.isdigit() holds (None when none is).
LastDigitPart(groups) ==
    LET parts == {i \in 1..Len(groups) : groups[i].value # None /\ ~groups[i].minus}
    IN  IF parts = {} THEN None
        ELSE groups[CHOOSE i \in parts : \A j \in parts : i >= j].value

\* script_total: the first pattern captures the digits the whole text ends with,
\* the second the integer after the first later "TOTAL", and when neither matches
\* the last all-digit part of the first line with the label is taken. The third
\* pattern needs the words DOCTOR and PAT/OTC, which no text of the model carries.
ScriptTotal(lines) ==
    LET heads == {i \in 1..Len(lines) : Contains(lines[i].label, DocumentsDispensed)}
    IN  IF heads = {} THEN None
        ELSE LET h == CHOOSE i \in heads : \A j \in heads : i <= j
                 tail == lines[Len(lines)].groups
                 totals == {j \in (h + 1)..Len(lines) :
                               /\ EndsWith(lines[j].label, <<"TOTAL">>)
                               /\ lines[j].groups # << >>
                               /\ lines[j].groups[1].value # None}
             IN  IF tail # << >> /\ tail[Len(tail)].value # None /\ ~tail[Len(tail)].minus
                 THEN tail[Len(tail)].value
                 ELSE IF totals # {}
                 THEN lines[CHOOSE j \in totals : \A k \in totals : j <= k].groups[1].value
                 ELSE LastDigitPart(lines[h].groups)

\* match.group(1) of the first revenue pattern that matches, as a sequence of at
\* most one group: the group after "TOTAL REVENUE", else the group after the first
\* "GROSS INCOME" that follows a "TOTAL REVENUE", else the same for "NETT INCOME".
\* The class [\d,] also matches a group of separators only.
RevenueGroup(lines) ==
    LET direct == {i \in 1..Len(lines) :
                      /\ EndsWith(lines[i].label, <<"TOTAL", "REVENUE">>)
                      /\ lines[i].groups # << >>}
        heads == {i \in 1..Len(lines) : Contains(lines[i].label, <<"TOTAL", "REVENUE">>)}
        after(words) == {j \in 1..Len(lines) :
                            /\ \E i \in heads : i < j
                            /\ EndsWith(lines[j].label, words)
                            /\ lines[j].groups # << >>}
        first(S) == CHOOSE i \in S : \A j \in S : i <= j
    IN  IF direct # {} THEN <<lines[first(direct)].groups[1]>>
        ELSE IF after(<<"GROSS", "INCOME">>) # {}
        THEN <<lines[first(after(<<"GROSS", "INCOME">>))].groups[1]>>
        ELSE IF after(<<"NETT", "INCOME">>) # {}
        THEN <<lines[first(after(<<"NETT", "INCOME">>))].groups[1]>>
        ELSE << >>

\* float(revenue_str) raises ValueError: nothing is left of the captured string
\* once its commas are removed.
FloatRaises(revenue) == revenue # << >> /\ revenue[1].value = None

\* extract_dispensary_summary_data on a text of the given lines.
extract_dispensary_summary_data(lines) ==
    LET script_total == ScriptTotal(lines)
        revenue == RevenueGroup(lines)
        disp_turnover_including_vat ==
            IF revenue = << >> THEN None ELSE revenue[1].value
        disp_turnover_excluding_vat ==
            IF disp_turnover_including_vat > 0
            THEN Quotient(disp_turnover_including_vat * 100, 115)
            ELSE NullQuotient
        avg_script_value ==
            IF script_total > 0 /\ disp_turnover_excluding_vat # NullQuotient
            THEN Quotient(disp_turnover_excluding_vat.num,
                          disp_turnover_excluding_vat.den * script_total)
            ELSE NullQuotient
    IN  IF FloatRaises(revenue)
        THEN [raised |-> TRUE, fields |-> EmptyDict]
        ELSE [raised |-> FALSE,
              fields |-> [script_total |-> script_total,
                          disp_turnover_including_vat |-> disp_turnover_including_vat,
                          disp_turnover_excluding_vat |-> disp_turnover_excluding_vat,
                          avg_script_value |-> avg_script_value]]

\* The labels of the lines of a dispensary summary in the model.
DispensaryLabels ==
    {DocumentsDispensed, <<"TOTAL">>, <<"TOTAL", "REVENUE">>, <<"GROSS", "INCOME">>}

\* What follows the label of such a line: nothing, or one group.
DispensaryGroups ==
    {<< >>} \cup {<<Group(v, m)>> : v \in (0..MaxInt) \cup {None}, m \in BOOLEAN}

DispensaryTexts ==
    SeqsUpTo({Line(l, g) : l \in DispensaryLabels, g \in DispensaryGroups}, MaxLines)

\* The extractor of each report type.
Extractors == {"transaction_summary", "turnover_summary", "dispensary_summary"}

\* The PDF text an extractor is called on.
ExtractInit ==
    /\ extractor \in Extractors
    /\ report_lines \in (CASE extractor = "transaction_summary" -> TransactionTexts
                           [] extractor = "turnover_summary" -> TurnoverTexts
                           [] extractor = "dispensary_summary" -> DispensaryTexts)
    /\ extracted = NotExtracted

ExtractTransactionSummary ==
    /\ extractor = "transaction_summary"
    /\ extracted = NotExtracted
    /\ extracted' = extract_transaction_summary_data(report_lines)
    /\ UNCHANGED <<extractor, report_lines>>

ExtractTurnoverSummary ==
    /\ extractor = "turnover_summary"
    /\ extracted = NotExtracted
    /\ extracted' = extract_turnover_summary_data(report_lines)
    /\ UNCHANGED <<extractor, report_lines>>

ExtractDispensarySummary ==
    /\ extractor = "dispensary_summary"
    /\ extracted = NotExtracted
    /\ extracted' = extract_dispensary_summary_data(report_lines)
    /\ UNCHANGED <<extractor, report_lines>>

\* What the extractors leave alone.
outsideExtract ==
    <<store, pc, pending, last, observed, serviceVars, dedupVars, aggregateVars,
      classifyVars, metricsVars, dateVars, monitorVars, schedulerVars>>

NextExtract ==
    \/ ExtractTransactionSummary /\ UNCHANGED outsideExtract
    \/ ExtractTurnoverSummary /\ UNCHANGED outsideExtract
    \/ ExtractDispensarySummary /\ UNCHANGED outsideExtract

InitExtract ==
    /\ ExtractInit
    /\ ReconcileIdle
    /\ ServiceIdle
    /\ DedupIdle
    /\ AggregateIdle
    /\ ClassifyIdle
    /\ MetricsIdle
    /\ DateIdle
    /\ MonitorIdle
    /\ SchedulerIdle

SpecExtract == InitExtract /\ [][NextExtract]_vars

(***************************************************************************)
(* Gross-profit report extraction (extract_gross_profit.py).  A report     *)
(* line is its three text columns followed by its numeric columns; a       *)
(* numeric column is the number printed on the page, i.e. its value in     *)
(* thousandths together with the number of decimals it is printed with.    *)
(***************************************************************************)
MaxRows == 2

Num(thousandths, decimals) == [thousandths |-> thousandths, decimals |-> decimals]

Row(dept, stock_code, desc, cols) ==
    [dept |-> dept, stock_code |-> stock_code, desc |-> desc, cols |-> cols]

\* The text columns of the line as they are printed, in upper case.
LineUpper(line) == line.dept \o " " \o line.stock_code \o " " \o line.desc

map_department_code(detailed_code) ==
    IF Len(detailed_code) >= 4 THEN SubSeq(detailed_code, 1, 4) ELSE detailed_code

header_keywords ==
    {"REITZ APTEEK", "TLC PHARMACY", "WINTERTON", "PAGE:", "CODE", "DESCRIPTION",
     "ON HAND", "SALES", "COST", "GROSS", "TURNOVER", "GP%", "QTY", "VALUE",
     "GROSS PROFIT REPORT"}

exclusion_keywords == {"MAIN-DEPT", "SUB-DEPT", "TOTAL", "-------", "===", "***"}

\* Step 1 of extract_gross_profit_data: the line survives the cleaning.  The
\* digits and points of the numeric columns contain no keyword, and a line
\* with six numeric columns is never shorter than 20 characters.
cleaned_lines(line) ==
    /\ \A keyword \in header_keywords : ~Contains(LineUpper(line), keyword)
    /\ \A keyword \in exclusion_keywords : ~Contains(LineUpper(line), keyword)

\* The decimals the two regular expressions demand of the numeric columns.
pattern == <<3, 3, 2, 2, 2, 3, 3>>

pattern2 == <<3, 3, 2, 2, 2, 3>>

\* The line matches the expression: six characters of department code, a
\* stock code of four or more, and its LAST columns printed with the decimals
\* of the expression (the lazy description group takes what comes before).
Matches(line, decimals) ==
    /\ Len(line.dept) = 6
    /\ Len(line.stock_code) >= 4
    /\ Len(line.cols) >= Len(decimals)
    /\ \A k \in 1..Len(decimals) :
           line.cols[Len(line.cols) - Len(decimals) + k].decimals = decimals[k]

\* The k-th numeric group of a match of the expression.
NumericGroup(line, decimals, k) ==
    line.cols[Len(line.cols) - Len(decimals) + k].thousandths

\* Step 3: the record appended for a matching line (None for no turnover %).
GrossProfitRecord(line) ==
    LET decimals == IF Matches(line, pattern) THEN pattern ELSE pattern2
    IN  [department_code |-> map_department_code(line.dept),
         original_department_code |-> line.dept,
         stock_code |-> line.stock_code,
         soh |-> NumericGroup(line, decimals, 1),
         sales_qty |-> NumericGroup(line, decimals, 2),
         sales_value |-> NumericGroup(line, decimals, 3),
         sales_cost |-> NumericGroup(line, decimals, 4),
         gross_profit |-> NumericGroup(line, decimals, 5),
         turnover_percent |->
             IF decimals = pattern THEN NumericGroup(line, decimals, 6) ELSE None,
         gross_profit_percent |-> NumericGroup(line, decimals, Len(decimals))]

Accepted(line) ==
    cleaned_lines(line) /\ (Matches(line, pattern) \/ Matches(line, pattern2))

extract_gross_profit_data(lines) ==
    LET matched == SelectSeq(lines, Accepted)
        records == [i \in 1..Len(matched) |-> GrossProfitRecord(matched[i])]
    IN  [raised |-> FALSE,
         fields |-> [sales_details |-> records, total_records |-> Len(records)]]

\* The report lines explored: the row of the acceptance test and its variants.
GrossProfitRows ==
    {Row(dept, stock_code, desc,
         <<Num(100000, 3), Num(15000, 3), Num(45500, 2), Num(35000, 2), Num(10500, 2)>>
             \o percents) :
        dept \in {"BAAC01", "BAAF03"},
        stock_code \in {"ST1234", "ST1"},
        desc \in {"PANADO 500MG", "CODEINE SYRUP"},
        percents \in {<<Num(23080, 2)>>, <<Num(23080, 3)>>,
                      <<Num(1200, 3), Num(23080, 3)>>, <<Num(1200, 2), Num(23080, 2)>>}}

GrossProfitTexts == SeqsUpTo(GrossProfitRows, MaxRows)

GrossProfitInit ==
    /\ extractor = "gross_profit_report"
    /\ report_lines \in GrossProfitTexts
    /\ extracted = NotExtracted

ExtractGrossProfit ==
    /\ extractor = "gross_profit_report"
    /\ extracted = NotExtracted
    /\ extracted' = extract_gross_profit_data(report_lines)
    /\ UNCHANGED <<extractor, report_lines>>

NextGrossProfit ==
    ExtractGrossProfit /\ UNCHANGED outsideExtract

InitGrossProfit ==
    /\ GrossProfitInit
    /\ ReconcileIdle
    /\ ServiceIdle
    /\ DedupIdle
    /\ AggregateIdle
    /\ ClassifyIdle
    /\ MetricsIdle
    /\ DateIdle
    /\ MonitorIdle
    /\ SchedulerIdle

SpecGrossProfit == InitGrossProfit /\ [][NextGrossProfit]_vars

(***************************************************************************)
(* Date resolution of a classified PDF (improved_classify_and_organize.py, *)
(* extract_date and the file-name fallback of process_emails_and_classify).*)
(* The text of a PDF is the sequence of the dates written in it, each with *)
(* the way it is written; the digits of a date are strings, as the regular *)
(* expressions capture them.                                               *)
(***************************************************************************)
MaxDates == 2

\* The ways a range of dates is written, and which of the five expressions
\* of date_range_patterns match it (the third and fourth only match texts
\* the first matches as well).
RangeForms == {"from: A to: B", "A - B", "date from : A date to : B"}

RangePatternMatches(n, form) ==
    CASE n = 1 -> form = "from: A to: B"
      [] n = 2 -> form = "A - B"
      [] n = 3 -> FALSE
      [] n = 4 -> FALSE
      [] n = 5 -> form = "date from : A date to : B"

\* The ways a single date is written.
SingleForms == {"YYYY/MM/DD", "DD/MM/YYYY", "YYYY-MM-DD", "DD MMM YYYY", "MMM DD YYYY"}

month_names == [m \in {"01", "02"} |-> IF m = "01" THEN "JAN" ELSE "FEB"]

month_number(word) == IF word = "JAN" THEN "01" ELSE IF word = "FEB" THEN "02" ELSE "01"

IsAlpha(s) == s \in {"JAN", "FEB"}

zfill2(s) == IF Len(s) < 2 THEN "0" \o s ELSE s

\* The groups the n-th expression of single_date_patterns captures from a date
\* written in the given form, << >> when it does not match.  The second
\* expression, (\d{1,2})[/-](\d{1,2})[/-](\d{2,4}), is not anchored: in a date
\* that begins with a four-digit year it matches from the third digit on.
SingleGroups(n, d) ==
    CASE n = 1 -> IF d.form = "YYYY/MM/DD" THEN <<d.year, d.month, d.day>> ELSE << >>
      [] n = 2 -> IF d.form = "DD/MM/YYYY" THEN <<d.day, d.month, d.year>>
                  ELSE IF d.form \in {"YYYY/MM/DD", "YYYY-MM-DD"} /\ Len(d.day) >= 2
                       THEN <<SubSeq(d.year, 3, 4), d.month, d.day>>
                       ELSE << >>
      [] n = 3 -> IF d.form \in {"YYYY/MM/DD", "YYYY-MM-DD"}
                  THEN <<d.year, d.month, d.day>> ELSE << >>
      [] n = 4 -> IF d.form = "DD MMM YYYY"
                  THEN <<d.day, month_names[d.month], d.year>> ELSE << >>
      [] n = 5 -> IF d.form = "MMM DD YYYY"
                  THEN <<month_names[d.month], d.day, d.year>> ELSE << >>

\* The date string built from the groups of the last match of a single-date
\* expression.
SingleDateString(match) ==
    LET ymd == IF Len(match[1]) = 4 THEN <<match[1], match[2], match[3]>>
               ELSE IF Len(match[3]) = 4 THEN <<match[3], match[2], match[1]>>
               ELSE <<(IF Len(match[3]) = 2 THEN "20" \o match[3] ELSE match[3]),
                      match[2], match[1]>>
        month == IF IsAlpha(ymd[2]) THEN month_number(ymd[2]) ELSE ymd[2]
    IN  ymd[1] \o "-" \o zfill2(month) \o "-" \o zfill2(ymd[3])

\* re.findall of an expression over the text: the matches in document order.
RangeMatches(n, dates) ==
    SelectSeq(dates, LAMBDA d : d.kind = "range" /\ RangePatternMatches(n, d.form))

SingleMatches(n, dates) ==
    SelectSeq(dates, LAMBDA d : d.kind = "single" /\ SingleGroups(n, d) # << >>)

\* extract_date: the end of the last match of the first range expression that
\* matches; else the last match of the first single-date expression that
\* matches; else None (the empty string).
extract_date(dates) ==
    IF \E n \in 1..5 : RangeMatches(n, dates) # << >>
    THEN LET n == CHOOSE k \in 1..5 :
                      /\ RangeMatches(k, dates) # << >>
                      /\ \A j \in 1..(k - 1) : RangeMatches(j, dates) = << >>
             matches == RangeMatches(n, dates)
             match == matches[Len(matches)]
         IN  match.to_year \o "-" \o zfill2(match.to_month) \o "-" \o zfill2(match.to_day)
    ELSE IF \E n \in 1..5 : SingleMatches(n, dates) # << >>
    THEN LET n == CHOOSE k \in 1..5 :
                      /\ SingleMatches(k, dates) # << >>
                      /\ \A j \in 1..(k - 1) : SingleMatches(j, dates) = << >>
             matches == SingleMatches(n, dates)
         IN  SingleDateString(SingleGroups(n, matches[Len(matches)]))
    ELSE ""

IsDigits(s) ==
    \A i \in 1..Len(s) :
        SubSeq(s, i, i) \in {"0", "1", "2", "3", "4", "5", "6", "7", "8", "9"}

\* re.search(r'(\d{8})', pdf_file.name): the first eight digits in a row.
FilenameDate(name) ==
    LET starts == {i \in 1..(Len(name) - 7) : IsDigits(SubSeq(name, i, i + 7))}
    IN  IF starts = {} THEN ""
        ELSE SubSeq(name, CHOOSE i \in starts : \A j \in starts : i <= j,
                          (CHOOSE i \in starts : \A j \in starts : i <= j) + 7)

\* The date part of process_emails_and_classify for one PDF.
ResolvedDate(pdf) ==
    IF extract_date(pdf.text) # "" THEN extract_date(pdf.text)
    ELSE IF FilenameDate(pdf.name) # ""
         THEN LET digits == FilenameDate(pdf.name)
              IN  SubSeq(digits, 1, 4) \o "-" \o SubSeq(digits, 5, 6)
                      \o "-" \o SubSeq(digits, 7, 8)
         ELSE "UNKNOWN_DATE"

\* The dates explored: days of January 2025 in every way of writing.
WrittenDays == {"04", "05"}

SingleDates ==
    {[kind |-> "single", form |-> form, year |-> "2025", month |-> "01", day |-> day,
      to_year |-> "", to_month |-> "", to_day |-> ""] :
        form \in SingleForms, day \in WrittenDays}

RangeDates ==
    {[kind |-> "range", form |-> form, year |-> "2025", month |-> "01", day |-> "04",
      to_year |-> "2025", to_month |-> "01", to_day |-> day] :
        form \in RangeForms, day \in WrittenDays \cup {"6"}}

PdfNames == {"turnover_20250106_1430.pdf", "report.pdf", "scan-1736072400.pdf"}

DatedPdfs ==
    {[text |-> dates, name |-> name] :
        dates \in SeqsUpTo(SingleDates \cup RangeDates, MaxDates), name \in PdfNames}

DateInit ==
    /\ pdf_file \in DatedPdfs
    /\ date_str = ""

ResolveDate ==
    /\ pdf_file # NoPdf
    /\ date_str = ""
    /\ date_str' = ResolvedDate(pdf_file)
    /\ UNCHANGED pdf_file

outsideDate ==
    <<store, pc, pending, last, observed, serviceVars, dedupVars, aggregateVars,
      classifyVars, metricsVars, extractVars, monitorVars, schedulerVars>>

NextDate ==
    ResolveDate /\ UNCHANGED outsideDate

InitDate ==
    /\ DateInit
    /\ ReconcileIdle
    /\ ServiceIdle
    /\ DedupIdle
    /\ AggregateIdle
    /\ ClassifyIdle
    /\ MetricsIdle
    /\ ExtractIdle
    /\ MonitorIdle
    /\ SchedulerIdle

SpecDate == InitDate /\ [][NextDate]_vars

(***************************************************************************)
(* The email monitor (email_monitor.py): process_single_email_cycle with   *)
(* should_process_report and update_report_timestamp.  A report date is a  *)
(* positive number, an email timestamp a positive number, None stands for  *)
(* a date with no stored last_email_timestamp and for a PDF whose date     *)
(* extract_report_date_from_pdf does not find.                             *)
(***************************************************************************)
MaxEmails == 3

EmailIds == 1..MaxEmails

ReportDates == {1, 2}

Timestamps == 1..((MaxEmails \div 2) + 1)

\* The emails of the mailbox: two emails may carry the same timestamp, an
\* email carries one PDF or three, and a PDF may have no date.
Email(id) ==
    [id |-> id,
     timestamp |-> (id \div 2) + 1,
     pdfs |-> IF id % 2 = 1 THEN <<1>> ELSE <<1, None, 2>>]

\* The k-th PDF file extract_pdf_attachments writes for an email.
PdfFile(email, k) ==
    [email_id |-> email.id, email_timestamp |-> email.timestamp,
     report_date |-> email.pdfs[k]]

\* get_recent_emails: the emails of the last two days in the order of the
\* IMAP search, every email at most once.
RecentEmails ==
    {ids \in SeqsUpTo(EmailIds, MaxEmails) :
        \A i, j \in 1..Len(ids) : i # j => ids[i] # ids[j]}

\* The comparison of should_process_report.
StrictlyNewerOrEqual(email_timestamp, last_timestamp) == email_timestamp >= last_timestamp

StrictlyNewer(email_timestamp, last_timestamp) == email_timestamp > last_timestamp

should_process_report(stamps, report_date, email_timestamp) ==
    IF stamps[report_date] = None THEN TRUE
    ELSE StrictlyNewer(email_timestamp, stamps[report_date])

\* The entry of reports_by_date a newer email starts.
ReportEntry(email) ==
    [pdf_files |-> << >>, email_timestamp |-> email.timestamp, email_id |-> email.id]

\* The body of the loop over the PDFs of one email, for its k-th PDF.
AddPdf(reports, stamps, email, k) ==
    LET report_date == email.pdfs[k]
        started == IF report_date \notin DOMAIN reports
                   THEN reports @@ (report_date :> ReportEntry(email))
                   ELSE IF email.timestamp > reports[report_date].email_timestamp
                        THEN [reports EXCEPT ![report_date] = ReportEntry(email)]
                        ELSE reports
    IN  IF report_date = None THEN reports
        ELSE IF ~should_process_report(stamps, report_date, email.timestamp) THEN reports
        ELSE IF started[report_date].email_timestamp = email.timestamp
             THEN [started EXCEPT ![report_date].pdf_files = Append(@, PdfFile(email, k))]
             ELSE started

RECURSIVE ExaminePdfs(_, _, _, _)
ExaminePdfs(reports, stamps, email, k) ==
    IF k > Len(email.pdfs) THEN reports
    ELSE ExaminePdfs(AddPdf(reports, stamps, email, k), stamps, email, k + 1)

\* all_pdf_files, as the set of the files the list holds.
AllPdfFiles(reports) ==
    UNION {{reports[d].pdf_files[i] : i \in 1..Len(reports[d].pdf_files)} :
               d \in DOMAIN reports}

\* processed_dates: the dates with PDFs.
ProcessedDates(reports) == {d \in DOMAIN reports : reports[d].pdf_files # << >>}

\* The test `if success:` on the value process_pdfs_through_pipeline returned.
AnyOutcome(success) == TRUE

PipelineSucceeded(success) == success

NoReports == [d \in {} |-> ReportEntry(Email(1))]

Cycle(cycle_pc, recent_emails, position, reports_by_date, all_pdf_files, result) ==
    [pc |-> cycle_pc, recent_emails |-> recent_emails, position |-> position,
     reports_by_date |-> reports_by_date, all_pdf_files |-> all_pdf_files,
     result |-> result]

MonitorInit ==
    /\ processed_emails = {}
    /\ report_timestamps \in [ReportDates -> {None} \cup Timestamps]
    /\ cycle = NoCycle

\* process_single_email_cycle up to the loop over recent_emails.
StartCycle ==
    /\ cycle.pc \in {"idle", "done"}
    /\ \E recent_emails \in RecentEmails :
           cycle' = IF recent_emails = << >>
                    THEN Cycle("done", << >>, 1, NoReports, {}, "none")
                    ELSE Cycle("examine", recent_emails, 1, NoReports, {}, "none")
    /\ UNCHANGED <<processed_emails, report_timestamps>>

\* One iteration of the loop over recent_emails.
ExamineEmail ==
    /\ cycle.pc = "examine"
    /\ cycle.position <= Len(cycle.recent_emails)
    /\ LET email == Email(cycle.recent_emails[cycle.position])
       IN  cycle' = [cycle EXCEPT
                        !.position = @ + 1,
                        !.reports_by_date =
                            IF email.id \in processed_emails THEN @
                            ELSE ExaminePdfs(@, report_timestamps, email, 1)]
    /\ UNCHANGED <<processed_emails, report_timestamps>>

\* After the loop: the PDFs are collected and, when there are any, handed to
\* process_pdfs_through_pipeline.
CollectPdfs ==
    /\ cycle.pc = "examine"
    /\ cycle.position > Len(cycle.recent_emails)
    /\ cycle' = IF AllPdfFiles(cycle.reports_by_date) = {}
                THEN [cycle EXCEPT !.pc = "done"]
                ELSE [cycle EXCEPT !.pc = "pipeline",
                                   !.all_pdf_files = AllPdfFiles(cycle.reports_by_date)]
    /\ UNCHANGED <<processed_emails, report_timestamps>>

\* process_pdfs_through_pipeline returns, with success or without, and the
\* cycle acts on the value.
PipelineReturns ==
    /\ cycle.pc = "pipeline"
    /\ \E success \in BOOLEAN :
           /\ IF PipelineSucceeded(success)
              THEN /\ report_timestamps' =
                          [d \in ReportDates |->
                              IF d \in ProcessedDates(cycle.reports_by_date)
                              THEN cycle.reports_by_date[d].email_timestamp
                              ELSE report_timestamps[d]]
                   /\ processed_emails' = processed_emails \cup
                          {cycle.reports_by_date[d].email_id :
                               d \in DOMAIN cycle.reports_by_date}
              ELSE UNCHANGED <<processed_emails, report_timestamps>>
           /\ cycle' = [cycle EXCEPT !.pc = "done",
                                     !.result = IF success THEN "success" ELSE "failed"]

outsideMonitor ==
    <<store, pc, pending, last, observed, serviceVars, dedupVars, aggregateVars,
      classifyVars, metricsVars, extractVars, dateVars, schedulerVars>>

NextMonitor ==
    \/ StartCycle /\ UNCHANGED outsideMonitor
    \/ ExamineEmail /\ UNCHANGED outsideMonitor
    \/ CollectPdfs /\ UNCHANGED outsideMonitor
    \/ PipelineReturns /\ UNCHANGED outsideMonitor

InitMonitor ==
    /\ MonitorInit
    /\ ReconcileIdle
    /\ ServiceIdle
    /\ DedupIdle
    /\ AggregateIdle
    /\ ClassifyIdle
    /\ MetricsIdle
    /\ ExtractIdle
    /\ DateIdle
    /\ SchedulerIdle

SpecMonitor == InitMonitor /\ [][NextMonitor]_vars

----------------------------------------------------------------------------
(* The scheduler threads of the web service: start_scheduler, stop_scheduler *)
(* and the loop run_scheduler of every thread start_scheduler has started.   *)

\* Most calls of start_scheduler that get past its guard in the model.
MaxThreads == 3

\* The threads and the jobs, both named by the start that created them.
ThreadIds == 1..MaxThreads

\* The threads whose run_scheduler has not returned.
LiveThreads == {i \in ThreadIds : sched_threads[i].pc \in {"loop", "job", "sleep"}}

\* Thread state: where its run_scheduler stands and the job it is calling (0: none).
Thread(thread_pc, job) == [pc |-> thread_pc, job |-> job]

\* The web service once app_improved is loaded: no thread, no job.
SchedulerInit ==
    /\ sched_threads = [i \in ThreadIds |-> Thread("unborn", 0)]
    /\ jobs = {}
    /\ due = {}
    /\ launched = [j \in ThreadIds |-> 0]

\* start_scheduler: returns at once when is_running is set; otherwise sets it,
\* registers the pipeline job and starts a thread on run_scheduler.
StartScheduler ==
    IF is_running
    THEN UNCHANGED <<is_running, schedulerVars>>
    ELSE \E i \in ThreadIds :
            /\ sched_threads[i].pc = "unborn"
            /\ \A k \in ThreadIds : k < i => sched_threads[k].pc # "unborn"
            /\ is_running' = TRUE
            /\ jobs' = jobs \cup {i}
            /\ sched_threads' = [sched_threads EXCEPT ![i] = Thread("loop", 0)]
            /\ UNCHANGED <<due, launched>>

\* stop_scheduler: clears the flag and schedule.clear() drops every job; the
\* threads are neither joined nor told apart.
StopScheduler ==
    /\ is_running' = FALSE
    /\ jobs' = {}
    /\ due' = {}
    /\ UNCHANGED <<sched_threads, launched>>

\* Time reaches the next_run of a registered job.
JobBecomesDue(j) ==
    /\ j \in jobs \ due
    /\ due' = due \cup {j}
    /\ launched' = [launched EXCEPT ![j] = 0]
    /\ UNCHANGED <<is_running, sched_threads, jobs>>

\* `while is_running: schedule.run_pending()` in thread i: the thread leaves the
\* loop when the flag is clear, calls a job that is due, or finds none and sleeps.
RunPending(i) ==
    /\ sched_threads[i].pc = "loop"
    /\ IF ~is_running
       THEN /\ sched_threads' = [sched_threads EXCEPT ![i] = Thread("dead", 0)]
            /\ UNCHANGED launched
       ELSE IF due # {}
       THEN \E j \in due :
               /\ sched_threads' = [sched_threads EXCEPT ![i] = Thread("job", j)]
               /\ launched' = [launched EXCEPT ![j] = launched[j] + 1]
       ELSE /\ sched_threads' = [sched_threads EXCEPT ![i] = Thread("sleep", 0)]
            /\ UNCHANGED launched
    /\ UNCHANGED <<is_running, jobs, due>>

\* run_improved_pipeline returns in thread i: only now does the job get its next
\* next_run; the thread goes on to time.sleep(30).
JobReturns(i) ==
    /\ sched_threads[i].pc = "job"
    /\ sched_threads' = [sched_threads EXCEPT ![i] = Thread("sleep", 0)]
    /\ due' = due \ {sched_threads[i].job}
    /\ UNCHANGED <<is_running, jobs, launched>>

\* time.sleep(30) of thread i is over: back to the test of the while loop.
WakeUp(i) ==
    /\ sched_threads[i].pc = "sleep"
    /\ sched_threads' = [sched_threads EXCEPT ![i] = Thread("loop", 0)]
    /\ UNCHANGED <<is_running, jobs, due, launched>>

\* What the scheduler leaves alone.
outsideScheduler ==
    <<store, pc, pending, last, observed, run_pc, run_local, dedupVars,
      aggregateVars, classifyVars, metricsVars, extractVars, dateVars, monitorVars>>

NextScheduler ==
    \/ StartScheduler /\ UNCHANGED outsideScheduler
    \/ StopScheduler /\ UNCHANGED outsideScheduler
    \/ \E j \in ThreadIds : JobBecomesDue(j) /\ UNCHANGED outsideScheduler
    \/ \E i \in ThreadIds : RunPending(i) /\ UNCHANGED outsideScheduler
    \/ \E i \in ThreadIds : JobReturns(i) /\ UNCHANGED outsideScheduler
    \/ \E i \in ThreadIds : WakeUp(i) /\ UNCHANGED outsideScheduler

InitScheduler ==
    /\ SchedulerInit
    /\ ReconcileIdle
    /\ ServiceIdle
    /\ DedupIdle
    /\ AggregateIdle
    /\ ClassifyIdle
    /\ MetricsIdle
    /\ ExtractIdle
    /\ DateIdle
    /\ MonitorIdle

SpecScheduler == InitScheduler /\ [][NextScheduler]_vars

----------------------------------------------------------------------------
(* Properties                                                               *)

\* The numeric business metrics of a daily record (every column but the derived
\* percentages and averages).
BusinessFields ==
    {"turnover", "gp_value", "cost_of_sales", "purchases", "stock_opening",
     "stock_closing", "adjustments", "transactions_total", "script_total",
     "disp_turnover", "sales_cash", "sales_account", "sales_cod"}

DerivedFields == {"gp_percent", "avg_basket_value", "avg_basket_size", "avg_script_value"}

\* The last iteration got as far as update_database_record.
Reconciled == last.outcome \in {"upserted", "upsert_failed"}

\* The step taken is a loop iteration (FinishRun needs pending = {}).
Iterating == pc = "reconcile" /\ pending # {}

\* C1: monotonicity. Every business metric of an upserted record is at least the
\* value the fetched existing record held for it.
C1_NeverRegresses ==
    last.outcome = "upserted" =>
        \A f \in BusinessFields :
            (f \in DOMAIN last.existing_data /\ last.existing_data[f] # None)
                => last.final_metrics[f] >= last.existing_data[f]

\* C2: every persisted business metric equals the largest value the candidate
\* records reconciled into its row have carried for it.
C2_StoredIsLargestObserved ==
    \A key \in DOMAIN store : \A f \in BusinessFields :
        store[key][f] = observed[key][f]

\* C3: idempotence. Reconciling the candidate of the last upsert once more against
\* the row that upsert wrote raises nothing and yields that same row, field by field.
C3_Idempotent ==
    last.outcome = "upserted" =>
        LET again == get_existing_data(store, last.key, TRUE)
        IN  /\ ~ReconcileRaises(again, last.calculated)
            /\ Upsert(store, last.key, FinalMetrics(again, last.calculated)) = store

\* A reconciliation that kept some existing values and took some new ones, so the row
\* written is neither the candidate nor the previous row.
C3_Witness ==
    /\ last.outcome = "upserted"
    /\ last.existing_data # EmptyDict
    /\ store[last.key] # last.existing_data
    /\ \E f \in BusinessFields : store[last.key][f] # last.calculated[f]

\* C4: compare_and_keep_largest returns the new value when the existing one is None
\* or zero, and otherwise the larger of the two (the existing one on a tie).
C4_KeepLargest ==
    Reconciled =>
        \A f \in KeepLargestFields :
            LET existing_value == Get(last.existing_data, f, 0)
                new_value == last.calculated[f]
                kept == last.final_metrics[f]
            IN  IF existing_value \in {None, 0}
                THEN kept = new_value
                ELSE /\ kept \in {existing_value, new_value}
                     /\ kept >= existing_value
                     /\ kept >= new_value

\* One record in which a new value replaced a smaller existing one, an existing value
\* outlived a smaller new one, and a zero gave way to the new value.
C4_Witness ==
    /\ Reconciled
    /\ \E f \in KeepLargestFields :
          /\ Get(last.existing_data, f, 0) > 0
          /\ last.calculated[f] > Get(last.existing_data, f, 0)
          /\ last.final_metrics[f] = last.calculated[f]
    /\ \E f \in KeepLargestFields :
          /\ last.calculated[f] > 0
          /\ Get(last.existing_data, f, 0) > last.calculated[f]
          /\ last.final_metrics[f] = Get(last.existing_data, f, 0)
    /\ \E f \in KeepLargestFields :
          /\ f \in DOMAIN last.existing_data
          /\ last.existing_data[f] = 0
          /\ last.final_metrics[f] = last.calculated[f]

\* C5: the derived fields of the final record all come from the fetched existing
\* record when its turnover is larger than the candidate's, and all from the
\* candidate when the candidate's turnover is larger.
C5_DerivedBundle ==
    Reconciled =>
        LET existing_turnover == Get(last.existing_data, "turnover", 0)
            new_turnover == last.calculated["turnover"]
        IN  /\ ("turnover" \in DOMAIN last.existing_data
                  /\ existing_turnover # None /\ existing_turnover > new_turnover)
               => \A f \in DerivedFields : last.final_metrics[f] = last.existing_data[f]
            /\ (existing_turnover # None /\ new_turnover > existing_turnover)
               => \A f \in DerivedFields : last.final_metrics[f] = last.calculated[f]

\* The existing turnover won and the two sides disagree on a derived field.
C5_Witness ==
    /\ last.outcome = "upserted"
    /\ "turnover" \in DOMAIN last.existing_data
    /\ last.existing_data["turnover"] > last.calculated["turnover"]
    /\ last.calculated["turnover"] > 0
    /\ \E f \in DerivedFields : last.existing_data[f] # last.calculated[f]
    /\ \A f \in DerivedFields : store[last.key][f] = last.existing_data[f]

\* C6: a null candidate field is no new information. When the candidate holds None
\* for a field the fetched existing record holds a value for, the iteration does not
\* raise and the final value of the field is the existing one.
C6_NullCandidateKeepsExisting ==
    \A f \in KeepLargestFields :
        (/\ last.outcome # "none"
         /\ f \in DOMAIN last.calculated
         /\ last.calculated[f] = None
         /\ f \in DOMAIN last.existing_data
         /\ last.existing_data[f] # None)
        => /\ last.outcome # "raised"
           /\ last.final_metrics[f] = last.existing_data[f]

\* C7: no upsert is issued under an unresolved date, and skipping such a group
\* leaves the table alone and the other groups of the batch in the loop.
C7_UnresolvedDateSkipped ==
    [][/\ \A key \in DOMAIN store' : key[2] # NoDate
       /\ last'.outcome \in {"upserted", "upsert_failed"} => last'.key[2] # NoDate
       /\ (Iterating /\ last'.key[2] = NoDate)
            => /\ last'.outcome = "skipped"
               /\ pc' = "reconcile"
               /\ pending' = pending \ {last'.key}
               /\ store' = store]_vars

\* A group was skipped for its date while other groups of the batch wait their turn.
C7_Witness ==
    /\ last.outcome = "skipped"
    /\ pc = "reconcile"
    /\ \E key \in pending : key[2] # NoDate

\* C8: a failed fetch or upsert in one group does not end the batch. The loop goes
\* on to the groups still pending, and the rows of the other keys are untouched.
C8_StoreFailureIsolated ==
    [][(Iterating /\ (~last'.fetch_ok \/ last'.outcome = "upsert_failed"))
          => /\ pc' = "reconcile"
             /\ pending' = pending \ {last'.key}
             /\ \A key \in DOMAIN store :
                   key # last'.key => (key \in DOMAIN store' /\ store'[key] = store[key])]_vars

\* An upsert failed while another branch's group of the same batch is still to come.
C8_Witness ==
    /\ last.outcome = "upsert_failed"
    /\ pc = "reconcile"
    /\ \E key \in pending : key[2] # NoDate /\ key[1] # last.key[1]

\* C9: after an iteration the row of its key is the keep-larger result against the
\* previous row; when a store step of the iteration failed (the fetch included) the
\* store is as it was, and in no case is the row computed without the previous row.
C9_ReconciledOrPrevious ==
    [][(Iterating /\ last'.outcome \in {"upserted", "upsert_failed"})
          => LET key == last'.key
                 previous == get_existing_data(store, key, TRUE)
                 reconciled == /\ key \in DOMAIN store'
                               /\ store'[key] = FinalMetrics(previous, last'.calculated)
             IN  IF last'.fetch_ok /\ last'.outcome = "upserted"
                 THEN reconciled
                 ELSE store' = store \/ reconciled]_vars

\* C10: a failed rollup refresh leaves the upsert committed and the loop running on
\* the remaining groups.
C10_RollupFailureSwallowed ==
    [][(Iterating /\ last'.rollup = "failed")
          => /\ last'.outcome = "upserted"
             /\ last'.key \in DOMAIN store'
             /\ store'[last'.key] = last'.final_metrics
             /\ pc' = "reconcile"
             /\ pending' = pending \ {last'.key}]_vars

\* The rollup refresh failed after an upsert that changed the row, with groups pending.
C10_Witness ==
    /\ last.rollup = "failed"
    /\ last.existing_data # EmptyDict
    /\ store[last.key] = last.final_metrics
    /\ store[last.key] # last.existing_data
    /\ pc = "reconcile"
    /\ pending # {}

\* C11: within an iteration the rollup refresh of a key is requested only after the
\* upsert of that key, only when that upsert succeeded, and never for a skipped group.
C11_RollupAfterUpsert ==
    \A i \in 1..Len(last.calls) :
        last.calls[i][1] = "refresh_rollups"
            => /\ last.outcome = "upserted"
               /\ \E j \in 1..(i - 1) : last.calls[j] = <<"upsert", last.calls[i][2]>>
               /\ last.calls[i][2] = last.key
               /\ last.key \in DOMAIN store /\ store[last.key] = last.final_metrics

C11_Witness ==
    /\ last.outcome = "upserted"
    /\ last.calls = <<<<"select", last.key>>, <<"upsert", last.key>>,
                      <<"refresh_rollups", last.key>>>>
    /\ \E key \in DOMAIN store : key # last.key

\* C12: at most one call of run_improved_pipeline is in progress at any time,
\* whatever triggers arrive.
C12_RunsNeverOverlap ==
    Cardinality({t \in Triggers : run_pc[t] # "idle"}) <= 1

\* C13: no pass writes a key with a turnover smaller than the one the key holds,
\* that is, no upsert rests on a read that another pass has made stale.
C13_SingleWriterPerKey ==
    [][\A key \in DOMAIN store :
          store[key]["turnover"] # None
              => store'[key]["turnover"] >= store[key]["turnover"]]_vars

\* The number a marker of four digits stands for.
MarkerValue(hhmm) == 1000 * hhmm[1] + 100 * hhmm[2] + 10 * hhmm[3] + hhmm[4]

\* The files of a listing whose names match and that belong to group g.
GroupFiles(g) == {files[i] : i \in {j \in 1..Len(files) : files[j].matches /\ files[j].key = g}}

DedupDone == scan_pos = 2 * Len(files) + 1

\* C14: once keep_latest_versions has gone through a tree, every group whose files
\* carry pairwise distinct markers keeps exactly one file, the one with the largest
\* marker, and every other file of the group is reported for removal.
C14_KeepLatestOfGroup ==
    DedupDone =>
        \A g \in DedupGroups :
            (/\ GroupFiles(g) # {}
             /\ \A a, b \in GroupFiles(g) : a # b => a.time # b.time)
            => /\ Cardinality(GroupFiles(g) \ to_remove) = 1
               /\ \A kept \in GroupFiles(g) \ to_remove :
                     /\ latest_map[g] = kept
                     /\ \A f \in GroupFiles(g) : MarkerValue(kept.time) >= MarkerValue(f.time)

C14_Witness ==
    /\ DedupDone
    /\ \E g \in DedupGroups :
          /\ Cardinality(GroupFiles(g)) = 3
          /\ \A a, b \in GroupFiles(g) : a # b => a.time # b.time
          /\ Cardinality(GroupFiles(g) \cap to_remove) = 2
          /\ files[1].key = g /\ files[1] \in to_remove /\ files[3] \in to_remove

\* The category-defining metric of an extracted item.
DefiningMetric(item) ==
    IF item.data_type = "gross_profit"
    THEN item.summary_stats.total_gross_profit
    ELSE item[CompareKey(item.data_type)]

\* The items of a data type among the first n of data_list.
ItemsOfType(data_type, n) ==
    {data_list[i] : i \in {j \in 1..n : data_list[j].data_type = data_type}}

AggregateDone == agg_pos = Len(data_list) + 1

\* C15: after the aggregation the slot of every category with documents (all of
\* them carrying their metric) holds one of them whole: the first seen among those
\* with the largest category-defining metric.
C15_SlotHoldsFirstLargest ==
    AggregateDone =>
        \A t \in 1..5 :
            LET docs == ItemsOfType(DataTypes[t], Len(data_list))
            IN  (docs # {} /\ \A d \in docs : DefiningMetric(d) # None)
                => LET held == combined_data[SlotOf(DataTypes[t])]
                   IN  /\ held \in docs
                       /\ \A d \in docs :
                             /\ DefiningMetric(held) >= DefiningMetric(d)
                             /\ DefiningMetric(held) = DefiningMetric(d)
                                    => held.file <= d.file

\* The number of phrases of a report type's keyword set present in the text.
PhrasesPresent(i) == Cardinality(REPORT_KEYWORDS[ReportTypes[i]] \cap text)

\* C16: the returned category has the highest number of keyword phrases present,
\* is the first in declaration order among those tied at the highest, and is
\* "unknown" exactly when every category scores zero.
C16_ClassifyHighestFirst ==
    best_match # "" =>
        /\ best_match = "unknown" <=> \A i \in 1..5 : PhrasesPresent(i) = 0
        /\ best_match # "unknown" =>
              \E i \in 1..5 :
                  /\ best_match = ReportTypes[i]
                  /\ \A j \in 1..5 : PhrasesPresent(j) <= PhrasesPresent(i)
                  /\ \A j \in 1..(i - 1) : PhrasesPresent(j) < PhrasesPresent(i)

C16_Witness ==
    /\ best_match = "gross_profit_report"
    /\ PhrasesPresent(2) = 1
    /\ PhrasesPresent(3) = 1
    /\ PhrasesPresent(5) = 1

\* r is num / den rounded to the nearest whole number (num, den, r in the same
\* unit of hundredths), either neighbour counting as nearest at the midpoint.
IsRounded(r, num, den) ==
    /\ 2 * (r * den - num) <= den
    /\ 2 * (num - r * den) <= den

\* C17: with a transaction count above 0, avg_basket_value is the turnover divided
\* by the count and avg_basket_size the quantity sold divided by the count, each
\* rounded to 2 decimals; with a count of 0 both are 0.
C17_BasketMetrics ==
    calculated_metrics # EmptyDict =>
        LET n == merged_data.transaction_summary.transactions_total
            turnover == merged_data.turnover_summary.turnover
            qty == merged_data.gross_profit_summary.summary_stats.total_sales_qty
        IN  IF n > 0
            THEN /\ IsRounded(calculated_metrics.avg_basket_value, turnover, n)
                 /\ IsRounded(calculated_metrics.avg_basket_size, qty, n)
            ELSE /\ calculated_metrics.avg_basket_value = 0
                 /\ calculated_metrics.avg_basket_size = 0

C17_Witness ==
    /\ calculated_metrics # EmptyDict
    /\ merged_data.transaction_summary.transactions_total = 3
    /\ merged_data.turnover_summary.turnover = 5
    /\ merged_data.gross_profit_summary.summary_stats.total_sales_qty = 7
    /\ calculated_metrics.avg_basket_value = 2
    /\ calculated_metrics.avg_basket_size = 2

\* The extractor has returned or raised.
ExtractDone == extractor # "" /\ extracted # NotExtracted

\* The field names each extractor declares in the dict it returns.
DeclaredFields ==
    [transaction_summary |->
        {"transactions_total", "transaction_breakdown", "avg_basket_value"},
     turnover_summary |-> DOMAIN TotalsLabel,
     dispensary_summary |->
        {"script_total", "disp_turnover_including_vat",
         "disp_turnover_excluding_vat", "avg_script_value"}]

\* The field of an extractor's result is null.
IsNull(field) ==
    IF field \in {"disp_turnover_excluding_vat", "avg_script_value"}
    THEN extracted.fields[field] = NullQuotient
    ELSE extracted.fields[field] = None

\* The text holds no digit and no separator: no pattern of any field can match.
NothingToMatch == \A i \in 1..Len(report_lines) : report_lines[i].groups = << >>

\* C18: whatever the text, the extractor returns without raising a dict with
\* every declared field, and when no pattern of any field can match (the empty
\* text, or labels with nothing after them) every value field is null.
C18_ExtractionNullSafe ==
    ExtractDone =>
        /\ ~extracted.raised
        /\ DOMAIN extracted.fields = DeclaredFields[extractor]
        /\ NothingToMatch =>
              \A field \in DeclaredFields[extractor] \ {"transaction_breakdown"} :
                  IsNull(field)

\* The amount a group of a totals line states: its digits, negative when a "-"
\* trails it.
StatedAmount(group) == IF group.minus THEN 0 - group.value ELSE group.value

\* C19: for each field whose totals line is present with its three amounts, the
\* extracted value is the third amount, negative exactly when a "-" trails the
\* third amount, whatever trails the second.
C19_ThirdGroupSigned ==
    (ExtractDone /\ extractor = "turnover_summary") =>
        \A field \in DOMAIN TotalsLabel :
            LET hits == {i \in 1..Len(report_lines) :
                            /\ report_lines[i].label = TotalsLabel[field]
                            /\ Len(report_lines[i].groups) = 3}
            IN  hits # {} =>
                    extracted.fields[field] =
                        StatedAmount(report_lines[CHOOSE i \in hits :
                                                     \A j \in hits : i <= j].groups[3])

\* The docket types as a set.
DocketTypes == {docket_types[i] : i \in 1..Len(docket_types)}

\* The line's own docket type: the longest of the list its label contains
\* (<< >> for a line that carries none, such as a paid-out line).
OwnDocketType(line) ==
    LET hits == {d \in DocketTypes : Contains(line.label, d)}
    IN  IF hits = {} THEN << >>
        ELSE CHOOSE d \in hits : \A e \in hits : Len(d) >= Len(e)

\* Sum over the lines n.. of the first integer after the label, for the lines
\* whose own docket type is in types.
RECURSIVE SumOfTypes(_, _, _)
SumOfTypes(lines, n, types) ==
    IF n > Len(lines) THEN 0
    ELSE (IF OwnDocketType(lines[n]) \in types /\ FirstInteger(lines[n].groups) # None
          THEN FirstInteger(lines[n].groups) ELSE 0)
         + SumOfTypes(lines, n + 1, types)

\* The count transaction_breakdown holds under a docket type (0 when absent).
BreakdownOf(docket_type) ==
    IF docket_type \in DOMAIN extracted.fields.transaction_breakdown
    THEN extracted.fields.transaction_breakdown[docket_type]
    ELSE 0

\* The total is the sum of the first integers of the lines that carry a docket
\* type, paid-out lines contributing nothing.
TotalIsSumOfLabelledLines ==
    (ExtractDone /\ extractor = "transaction_summary") =>
        extracted.fields.transactions_total = SumOfTypes(report_lines, 1, DocketTypes)

\* C20: transactions_total is the sum of the first integers after the label of
\* the lines that carry a docket type, paid-out lines contributing nothing, and
\* every line is counted once, under its own most specific docket type.
C20_CountedUnderOwnLabel ==
    (ExtractDone /\ extractor = "transaction_summary") =>
        /\ extracted.fields.transactions_total = SumOfTypes(report_lines, 1, DocketTypes)
        /\ \A d \in DocketTypes : BreakdownOf(d) = SumOfTypes(report_lines, 1, {d})

\* The dispensary extractor has returned a dict.
DispensaryReturned ==
    ExtractDone /\ extractor = "dispensary_summary" /\ ~extracted.raised

\* C22: avg_script_value is null when the script count is zero or missing, and
\* otherwise it is the revenue excluding VAT over the script count, the revenue
\* excluding VAT being the extracted revenue over 1.15 (null with no revenue).
C22_AvgScriptValue ==
    DispensaryReturned =>
        LET script_total == extracted.fields.script_total
            revenue == extracted.fields.disp_turnover_including_vat
            excluding_vat == IF revenue = None THEN NullQuotient
                             ELSE Quotient(revenue * 100, 115)
        IN  /\ script_total \in {None, 0} =>
                    extracted.fields.avg_script_value = NullQuotient
            /\ script_total > 0 =>
                    /\ extracted.fields.disp_turnover_excluding_vat = excluding_vat
                    /\ extracted.fields.avg_script_value =
                          IF revenue = None THEN NullQuotient
                          ELSE Quotient(revenue * 100, 115 * script_total)

\* The place of a file in the order rglob yields the tree.
VisitOrder(f) == CHOOSE i \in 1..Len(files) : files[i] = f

\* Two files of one group with the same marker, of which `kept` is not reported
\* for removal.
TiedSurvivor(kept, other) ==
    /\ kept.matches /\ other.matches
    /\ kept # other
    /\ kept.key = other.key
    /\ kept.time = other.time
    /\ kept \notin to_remove

\* The files of the listing.
ListedFiles == {files[i] : i \in 1..Len(files)}

\* C24 as stated: of two files of a group with an identical marker, the one that
\* survives is the one visited last.
C24_LastVisitedSurvives ==
    DedupDone =>
        \A kept, other \in ListedFiles :
            TiedSurvivor(kept, other) => VisitOrder(kept) > VisitOrder(other)

\* C24 amended: of two files of a group with an identical marker, the one that
\* survives is the one visited first, and the later one is reported for removal.
C24_FirstVisitedSurvives ==
    DedupDone =>
        \A kept, other \in ListedFiles :
            TiedSurvivor(kept, other) =>
                /\ VisitOrder(kept) < VisitOrder(other)
                /\ other \in to_remove

C24_Witness ==
    /\ DedupDone
    /\ \E kept, other \in ListedFiles :
          /\ TiedSurvivor(kept, other)
          /\ other \in to_remove
          /\ latest_map[kept.key] = kept

\* The files whose names do not match <report_type>_<HHMM>_<rest>.
UnmatchedFiles == {f \in ListedFiles : ~f.matches}

\* C30: a file is reported for removal only when a file of its own group is
\* kept in its place; a file whose name does not match the pattern is neither
\* recorded nor reported; and once the tree has been gone through every group
\* with a matching file keeps exactly one of its files.
C30_DedupFrame ==
    /\ \A f \in to_remove :
          /\ f.matches
          /\ f.key \in DOMAIN latest_map
          /\ latest_map[f.key] \in GroupFiles(f.key) \ {f}
    /\ \A f \in UnmatchedFiles :
          /\ f \notin to_remove
          /\ \A k \in DOMAIN latest_map : latest_map[k] # f
    /\ DedupDone =>
          \A g \in DedupGroups :
              GroupFiles(g) # {} =>
                  /\ Cardinality(GroupFiles(g) \ to_remove) = 1
                  /\ g \in DOMAIN latest_map
                  /\ latest_map[g] \in GroupFiles(g) \ to_remove

C30_Witness ==
    /\ DedupDone
    /\ UnmatchedFiles # {}
    /\ \E g, h \in DedupGroups :
          /\ g # h
          /\ Cardinality(GroupFiles(g)) = 1
          /\ GroupFiles(g) \cap to_remove = {}
          /\ GroupFiles(h) # {}
          /\ \E f \in GroupFiles(g), e \in GroupFiles(h) :
                MarkerValue(f.time) < MarkerValue(e.time)

\* A comparison of the aggregation loops raised and the exception left
\* extract_and_process_all_data.
AggregateAborted == data_list # << >> /\ agg_pos = 0

\* C25: whatever the order of the documents of a key, among them documents whose
\* category-defining metric is null, the aggregation never raises, and once it
\* is done every slot with documents holds one of them unchanged, null fields
\* included.
C25_NullMetricPassesThrough ==
    /\ ~AggregateAborted
    /\ AggregateDone =>
          \A n \in 1..Len(DataTypes) :
              ItemsOfType(DataTypes[n], Len(data_list)) # {} =>
                  combined_data[SlotOf(DataTypes[n])]
                      \in ItemsOfType(DataTypes[n], Len(data_list))

\* The record with another turnover (a record without the field is left as it is).
WithTurnover(record, t) ==
    IF "turnover" \in DOMAIN record THEN [record EXCEPT !["turnover"] = t] ELSE record

\* The raw field f of the reconciled record is the one a reconciliation of the
\* same existing[f] and candidate[f] with any other turnovers would produce.
IndependentOfTurnover(f) ==
    \A t1, t2 \in Amounts :
        FinalMetrics(WithTurnover(last.existing_data, t1),
                     WithTurnover(last.calculated, t2))[f] = last.final_metrics[f]

\* C26: the final value of every raw field other than the one varied depends only
\* on that field's existing and candidate values: a reconciliation that differs
\* in the turnovers alone produces the same final value for it.
C26_PerFieldIndependence ==
    Reconciled => \A f \in BusinessFields \ {"turnover"} : IndependentOfTurnover(f)

\* C29: at most one thread is inside run_scheduler, the pipeline job is
\* registered at most once, and no job is launched twice for one due time.
C29_SchedulerSingleton ==
    /\ Cardinality(LiveThreads) <= 1
    /\ Cardinality(jobs) <= 1
    /\ \A j \in due : launched[j] <= 1

\* C21: every gross-profit data row made of a 6-character department code, a
\* stock code, a description and the numeric columns on-hand qty, sales qty,
\* sales value, sales cost, gross profit and gp% (as the row "BAAC01 ST1234
\* PANADO 500MG 100.000 15.000 45.50 35.00 10.50 23.08") is accepted as a
\* record whose department_code is the first 4 characters of its department
\* code and whose sales_qty and gross_profit are the row's values.
GrossProfitDone == extractor = "gross_profit_report" /\ extracted # NotExtracted

SixColumnRow(line) == Len(line.dept) = 6 /\ Len(line.cols) = 6

RecordedAs(line, record) ==
    /\ record.original_department_code = line.dept
    /\ record.stock_code = line.stock_code
    /\ record.department_code = SubSeq(line.dept, 1, 4)
    /\ record.sales_qty = line.cols[2].thousandths
    /\ record.gross_profit = line.cols[5].thousandths

C21_RowAccepted ==
    GrossProfitDone =>
        \A i \in 1..Len(report_lines) :
            SixColumnRow(report_lines[i]) =>
                \E k \in 1..Len(extracted.fields.sales_details) :
                    RecordedAs(report_lines[i], extracted.fields.sales_details[k])

\* C23: date resolution priority: a text with a from/to date range resolves to
\* the end date of the range whatever single dates it holds; otherwise to the
\* last single date of the document; otherwise to the 8-digit fragment of the
\* file name; otherwise the document has no date.
DateResolved == pdf_file # NoPdf /\ date_str # ""

\* The date a written date denotes, as YYYY-MM-DD.
IsoDate(year, month, day) == year \o "-" \o zfill2(month) \o "-" \o zfill2(day)

RangesOf(dates) == SelectSeq(dates, LAMBDA d : d.kind = "range")

SinglesOf(dates) == SelectSeq(dates, LAMBDA d : d.kind = "single")

LastSingleDate(dates) ==
    LET d == SinglesOf(dates)[Len(SinglesOf(dates))]
    IN  IsoDate(d.year, d.month, d.day)

C23_DatePriority ==
    DateResolved =>
        LET dates == pdf_file.text
            digits == FilenameDate(pdf_file.name)
        IN  IF RangesOf(dates) # << >>
            THEN \E i \in 1..Len(RangesOf(dates)) :
                     date_str = IsoDate(RangesOf(dates)[i].to_year,
                                        RangesOf(dates)[i].to_month,
                                        RangesOf(dates)[i].to_day)
            ELSE IF SinglesOf(dates) # << >>
            THEN date_str = LastSingleDate(dates)
            ELSE IF digits # ""
            THEN date_str = IsoDate(SubSeq(digits, 1, 4), SubSeq(digits, 5, 6),
                                    SubSeq(digits, 7, 8))
            ELSE date_str = "UNKNOWN_DATE"

\* C27: in process_single_email_cycle an email id is added to processed_emails
\* and the timestamp of a report date is advanced only in a cycle whose call of
\* process_pdfs_through_pipeline returned success; when the pipeline fails both
\* are left as they were.
MonitorStateChanges ==
    processed_emails' # processed_emails \/ report_timestamps' # report_timestamps

C27_AdvancedOnlyOnSuccess ==
    [][MonitorStateChanges => cycle.pc = "pipeline" /\ cycle'.result = "success"]_vars

\* A cycle whose pipeline failed, with its emails still unprocessed.
C27_Witness ==
    /\ cycle.pc = "done"
    /\ cycle.result = "failed"
    /\ \E pdf \in cycle.all_pdf_files : pdf.email_id \notin processed_emails

\* C28: a report for date d from an email with timestamp t is handed to the
\* pipeline only if no timestamp is stored for d or t is strictly newer than the
\* stored one; within a cycle only the PDFs of the newest email per report date
\* are handed over; the stored timestamp of a date never decreases.
EmailHasReport(email, report_date) ==
    \E k \in 1..Len(email.pdfs) : email.pdfs[k] = report_date

HandedOnlyIfNewer ==
    cycle.pc = "pipeline" =>
        \A pdf \in cycle.all_pdf_files :
            \/ report_timestamps[pdf.report_date] = None
            \/ pdf.email_timestamp > report_timestamps[pdf.report_date]

HandedFromNewestEmail ==
    cycle.pc = "pipeline" =>
        \A pdf \in cycle.all_pdf_files :
            \A i \in 1..Len(cycle.recent_emails) :
                LET email == Email(cycle.recent_emails[i])
                IN  (email.id \notin processed_emails
                         /\ EmailHasReport(email, pdf.report_date))
                        => email.timestamp <= pdf.email_timestamp

TimestampNeverDecreases ==
    \A d \in DOMAIN report_timestamps : report_timestamps'[d] >= report_timestamps[d]

====
